---- MODULE Spec2Model ----
(***************************************************************************)
(* Civic issue workflow: the SQL triggers of the workflow migration        *)
(* (auto_assign_issue_to_area, handle_tender_award, update_issue_counts)   *)
(* and the WorkProgressTracker submission flow, as state machines.         *)
(*                                                                         *)
(* SQL NULL is the string "NULL"; a table is a function from the primary   *)
(* keys of its rows to the rows; a table whose rows only carry a generated *)
(* uuid is a sequence of rows in insertion order.                          *)
(***************************************************************************)
EXTENDS Integers, Sequences, FiniteSets, TLC

VARIABLES
    areas,              \* table areas: id -> [name, is_active]
    profiles,           \* table profiles: id -> [user_type, is_verified, assigned_area_id]
    auth_users,         \* table auth.users: id -> [email, raw_user_meta_data]
    issues,             \* table issues: id -> row
    tenders,            \* table tenders: id -> [status, awarded_to, source_issue_id]
    issue_assignments,  \* table issue_assignments, rows in insertion order
    issue_votes,        \* table issue_votes: id -> [issue_id, vote_type]
    lastStmt,           \* the last SQL statement and its outcome, as its caller sees it
    voteTrace,          \* the last statement on issue_votes and the counters it found
    work_progress,      \* table work_progress: id -> row
    progressData,       \* WorkProgressTracker state: the form fields
    selectedImages,     \* WorkProgressTracker state: the picked assets
    loading,            \* WorkProgressTracker state: a submit is running
    alert,              \* the Alert on screen, "none" when there is none
    pc,                 \* where handleSubmit is: "idle", "uploading", "inserting"
    closure,            \* what the running handleSubmit closed over when it was called
    payload,            \* the argument of the submitWorkProgress call in flight
    flowTrace,          \* the calls and the outcome of the last handleSubmit
    showProgressTracker,\* ContractorWorkScreen state
    selectedWorkItem,   \* ContractorWorkScreen state
    screenLoading,      \* ContractorWorkScreen state: loading
    detached,           \* the handleSubmit still running for a tracker that was unmounted
    existingProgress,   \* WorkProgressTracker state: the previous-progress list
    requests            \* the loadExistingProgress calls made since the last unmount and
                        \* those of earlier mounts that have not returned

dbVars == <<areas, profiles, auth_users, issues, tenders, issue_assignments, issue_votes,
            lastStmt, voteTrace>>

trackerVars == <<progressData, selectedImages, loading>>

screenVars == <<showProgressTracker, selectedWorkItem, screenLoading>>

listVars == <<existingProgress, requests>>

clientVars == <<work_progress, trackerVars, alert, pc, closure, payload, flowTrace,
                screenVars, detached, listVars>>

vars == <<dbVars, clientVars>>

NULL == "NULL"

(***************************************************************************)
(* Bounds of the model.                                                    *)
(***************************************************************************)
MaxCount == 2          \* vote statements stop once a counter reaches this
MaxAssignments == 2    \* award statements stop once issue_assignments holds this many rows
MaxImages == 2         \* the device holds this many pictures to attach

AreaIds == {"a1", "a2", "a3"}
ProfileIds == {"p1", "p2", "p3", "p4", "p5"}
IssueIds == {"i1", "i2", "i3"}
TenderIds == {"t1", "t2", "t3"}
VoteIds == {"v1", "v2"}
VoteTypes == {"upvote", "downvote"}

(***************************************************************************)
(* SQL helpers.                                                            *)
(***************************************************************************)
\* GREATEST(a, b) with the floor left out: the larger argument is not taken.
GREATEST_NoFloor(a, b) == a

\* GREATEST(a, b) of two non-null integers.
GREATEST(a, b) == IF a >= b THEN a ELSE b

\* INSERT of one row under primary key key.
InsertRow(tbl, key, row) ==
    [k \in DOMAIN tbl \cup {key} |-> IF k = key THEN row ELSE tbl[k]]

\* DELETE ... WHERE id = key.
DeleteRow(tbl, key) == [k \in DOMAIN tbl \ {key} |-> tbl[k]]

(***************************************************************************)
(* update_issue_counts: AFTER INSERT OR UPDATE OR DELETE ON issue_votes.   *)
(* old and new are the trigger's OLD and NEW vote rows (NULL when the       *)
(* operation has none); the result is the issues table after the trigger's *)
(* UPDATE.                                                                 *)
(***************************************************************************)
\* The DELETE branch decrementing the counter of the other vote type.
update_issue_counts_SwappedDelete(tbl, TG_OP, old, new) ==
    [k \in DOMAIN tbl |->
        CASE TG_OP = "INSERT" /\ k = new.issue_id /\ new.vote_type = "upvote" ->
               [tbl[k] EXCEPT !.upvotes = @ + 1]
          [] TG_OP = "INSERT" /\ k = new.issue_id /\ new.vote_type = "downvote" ->
               [tbl[k] EXCEPT !.downvotes = @ + 1]
          [] TG_OP = "DELETE" /\ k = old.issue_id /\ old.vote_type = "upvote" ->
               [tbl[k] EXCEPT !.downvotes = GREATEST(@ - 1, 0)]
          [] TG_OP = "DELETE" /\ k = old.issue_id /\ old.vote_type = "downvote" ->
               [tbl[k] EXCEPT !.upvotes = GREATEST(@ - 1, 0)]
          [] OTHER -> tbl[k]]

\* The UPDATE branch left out: a change of vote_type moves no counter.
update_issue_counts_NoUpdateBranch(tbl, TG_OP, old, new) ==
    [k \in DOMAIN tbl |->
        CASE TG_OP = "INSERT" /\ k = new.issue_id /\ new.vote_type = "upvote" ->
               [tbl[k] EXCEPT !.upvotes = @ + 1]
          [] TG_OP = "INSERT" /\ k = new.issue_id /\ new.vote_type = "downvote" ->
               [tbl[k] EXCEPT !.downvotes = @ + 1]
          [] TG_OP = "DELETE" /\ k = old.issue_id /\ old.vote_type = "upvote" ->
               [tbl[k] EXCEPT !.upvotes = GREATEST(@ - 1, 0)]
          [] TG_OP = "DELETE" /\ k = old.issue_id /\ old.vote_type = "downvote" ->
               [tbl[k] EXCEPT !.downvotes = GREATEST(@ - 1, 0)]
          [] OTHER -> tbl[k]]

\* One UPDATE issues ... WHERE id = <the vote's issue_id> per branch: the row
\* with that id changes, every other row is left alone.
update_issue_counts(tbl, TG_OP, old, new) ==
    [k \in DOMAIN tbl |->
        CASE TG_OP = "INSERT" /\ k = new.issue_id /\ new.vote_type = "upvote" ->
               [tbl[k] EXCEPT !.upvotes = @ + 1]
          [] TG_OP = "INSERT" /\ k = new.issue_id /\ new.vote_type = "downvote" ->
               [tbl[k] EXCEPT !.downvotes = @ + 1]
          [] TG_OP = "DELETE" /\ k = old.issue_id /\ old.vote_type = "upvote" ->
               [tbl[k] EXCEPT !.upvotes = GREATEST(@ - 1, 0)]
          [] TG_OP = "DELETE" /\ k = old.issue_id /\ old.vote_type = "downvote" ->
               [tbl[k] EXCEPT !.downvotes = GREATEST(@ - 1, 0)]
          [] TG_OP = "UPDATE" /\ k = new.issue_id
             /\ old.vote_type = "upvote" /\ new.vote_type = "downvote" ->
               [tbl[k] EXCEPT !.upvotes = GREATEST(@ - 1, 0),
                              !.downvotes = @ + 1]
          [] TG_OP = "UPDATE" /\ k = new.issue_id
             /\ old.vote_type = "downvote" /\ new.vote_type = "upvote" ->
               [tbl[k] EXCEPT !.downvotes = GREATEST(@ - 1, 0),
                              !.upvotes = @ + 1]
          [] OTHER -> tbl[k]]

\* The counters of one issue, as a pair.
Counters(tbl, i) == [upvotes |-> tbl[i].upvotes, downvotes |-> tbl[i].downvotes]

\* A statement's outcome: op and key name the statement, old is the status the
\* row had before an UPDATE of tenders, error is "none" when it committed.
Stmt(op, key, old, error) ==
    [op |-> op, key |-> key, old |-> old, ok |-> (error = "none"), error |-> error]

NoStmt == Stmt("none", NULL, NULL, "none")

VoteTrace(op, v, i, before) == [op |-> op, id |-> v, issue_id |-> i, before |-> before]

NoVoteTrace == VoteTrace("none", NULL, NULL, [upvotes |-> 0, downvotes |-> 0])

\* INSERT INTO issue_votes: the row, then the trigger.
InsertVote(v, i, ty) ==
    /\ UNCHANGED clientVars
    /\ v \notin DOMAIN issue_votes
    /\ i \in DOMAIN issues
    /\ issues[i].upvotes < MaxCount /\ issues[i].downvotes < MaxCount
    /\ LET new == [issue_id |-> i, vote_type |-> ty] IN
         /\ issue_votes' = InsertRow(issue_votes, v, new)
         /\ issues' = update_issue_counts(issues, "INSERT", NULL, new)
    /\ voteTrace' = VoteTrace("insert", v, i, Counters(issues, i))
    /\ lastStmt' = Stmt("insert_vote", v, NULL, "none")
    /\ UNCHANGED <<areas, profiles, auth_users, tenders, issue_assignments>>

\* DELETE FROM issue_votes WHERE id = v: the row goes, then the trigger.
DeleteVote(v) ==
    /\ UNCHANGED clientVars
    /\ v \in DOMAIN issue_votes
    /\ LET old == issue_votes[v] IN
         /\ issue_votes' = DeleteRow(issue_votes, v)
         /\ issues' = update_issue_counts(issues, "DELETE", old, NULL)
         /\ voteTrace' = IF voteTrace.op = "insert" /\ voteTrace.id = v
                         THEN [voteTrace EXCEPT !.op = "insert_delete"]
                         ELSE VoteTrace("delete", v, old.issue_id,
                                        Counters(issues, old.issue_id))
    /\ lastStmt' = Stmt("delete_vote", v, NULL, "none")
    /\ UNCHANGED <<areas, profiles, auth_users, tenders, issue_assignments>>

\* UPDATE issue_votes SET issue_id = i, vote_type = ty WHERE id = v.
UpdateVote(v, i, ty) ==
    /\ UNCHANGED clientVars
    /\ v \in DOMAIN issue_votes
    /\ i \in DOMAIN issues
    /\ issues[i].upvotes < MaxCount /\ issues[i].downvotes < MaxCount
    /\ LET old == issue_votes[v]
           new == [issue_id |-> i, vote_type |-> ty] IN
         /\ issue_votes' = [issue_votes EXCEPT ![v] = new]
         /\ issues' = update_issue_counts(issues, "UPDATE", old, new)
    /\ voteTrace' = VoteTrace("update", v, i, Counters(issues, i))
    /\ lastStmt' = Stmt("update_vote", v, NULL, "none")
    /\ UNCHANGED <<areas, profiles, auth_users, tenders, issue_assignments>>

(***************************************************************************)
(* The tables the specifications start from.                               *)
(***************************************************************************)
\* areas: two active areas and an inactive one.
InitAreas ==
    [a \in AreaIds |->
        CASE a = "a1" -> [name |-> "CBD", is_active |-> TRUE]
          [] a = "a2" -> [name |-> "RZA", is_active |-> TRUE]
          [] OTHER    -> [name |-> "IND", is_active |-> FALSE]]

Profile(ty, verified, area) ==
    [user_type |-> ty, is_verified |-> verified, assigned_area_id |-> area]

\* profiles: an admin, a verified area admin of a1, a contractor, an unverified
\* area admin of a2 and a verified area admin of the inactive a3.
InitProfiles ==
    [p \in ProfileIds |->
        CASE p = "p1" -> Profile("admin", TRUE, NULL)
          [] p = "p2" -> Profile("area_super_admin", TRUE, "a1")
          [] p = "p3" -> Profile("tender", TRUE, NULL)
          [] p = "p4" -> Profile("area_super_admin", FALSE, "a2")
          [] OTHER    -> Profile("area_super_admin", TRUE, "a3")]

\* auth.users: the identities of the profiles, with no metadata.
InitUsers ==
    [u \in ProfileIds |-> [email |-> "known@mail", raw_user_meta_data |-> <<>>]]

\* The row INSERT INTO issues builds before its triggers run: the columns the
\* statement gives, the column defaults for the rest.
IssueRow(area, stage) ==
    [area |-> area, workflow_stage |-> stage, status |-> "pending",
     assigned_area_id |-> NULL, current_assignee_id |-> NULL,
     upvotes |-> 0, downvotes |-> 0]

(***************************************************************************)
(* auto_assign_issue_to_area: BEFORE INSERT ON issues.                     *)
(***************************************************************************)
\* The scalar subquery SELECT a.id FROM areas a WHERE a.name = <area> AND
\* a.is_active = true: the ids it may draw from.
AreaCandidates(area) ==
    {a \in DOMAIN areas : areas[a].name = area /\ areas[a].is_active}

\* The scalar subquery SELECT p.id FROM profiles p JOIN areas a ON
\* p.assigned_area_id = a.id WHERE a.name = <area> AND p.user_type =
\* 'area_super_admin' AND p.is_verified = true: the ids it may draw from.
AdminCandidates(area) ==
    {q \in DOMAIN profiles :
        /\ profiles[q].assigned_area_id \in DOMAIN areas
        /\ areas[profiles[q].assigned_area_id].name = area
        /\ profiles[q].user_type = "area_super_admin"
        /\ profiles[q].is_verified}

\* LIMIT 1 of a scalar subquery: any one of its rows, NULL when it has none.
LimitOne(S) == IF S = {} THEN {NULL} ELSE S

\* NEW.workflow_stage left as the statement gave it.
StampWorkflowStage_Keep(new) == new

\* NEW.workflow_stage = 'area_review'.
StampWorkflowStage(new) == [new EXCEPT !.workflow_stage = "area_review"]

\* UPDATE issues SET assigned_area_id = aid, current_assignee_id = pid
\* WHERE id = key, on the table as the trigger finds it: the row being
\* inserted is not in it yet.
AssignWhereId(tbl, key, aid, pid) ==
    [k \in DOMAIN tbl |->
        IF k = key
        THEN [tbl[k] EXCEPT !.assigned_area_id = aid, !.current_assignee_id = pid]
        ELSE tbl[k]]

\* The trigger body for the row new under key: the row it returns and the
\* issues table its UPDATE leaves. aid and pid are the subqueries' results.
auto_assign_issue_to_area(tbl, key, new, aid, pid) ==
    [row |-> StampWorkflowStage(new),
     issues |-> IF new.area # NULL THEN AssignWhereId(tbl, key, aid, pid) ELSE tbl]

\* INSERT INTO issues (id, area, workflow_stage) VALUES (key, area, stage):
\* the BEFORE INSERT trigger, then the row it returned is stored; a key that is
\* taken violates the primary key and the statement is rolled back.
CreateIssue(key, area, stage) ==
    \E aid \in LimitOne(AreaCandidates(area)), pid \in LimitOne(AdminCandidates(area)) :
        LET t == auto_assign_issue_to_area(issues, key, IssueRow(area, stage), aid, pid) IN
          /\ UNCHANGED clientVars
          /\ IF key \in DOMAIN issues
             THEN /\ issues' = issues
                  /\ lastStmt' = Stmt("insert_issue", key, NULL, "duplicate_key")
             ELSE /\ issues' = InsertRow(t.issues, key, t.row)
                  /\ lastStmt' = Stmt("insert_issue", key, NULL, "none")
          /\ UNCHANGED <<areas, profiles, auth_users, tenders, issue_assignments, issue_votes,
                         voteTrace>>

(***************************************************************************)
(* handle_tender_award: AFTER UPDATE ON tenders.                           *)
(***************************************************************************)
\* SQL comparisons are three-valued: a comparison with NULL is NULL, and an IF
\* takes its branch only when the condition is true.
SqlEq(a, b) == IF a = NULL \/ b = NULL THEN "null" ELSE IF a = b THEN "true" ELSE "false"

SqlNe(a, b) == IF a = NULL \/ b = NULL THEN "null" ELSE IF a # b THEN "true" ELSE "false"

SqlAnd(x, y) ==
    IF x = "false" \/ y = "false" THEN "false"
    ELSE IF x = "true" /\ y = "true" THEN "true" ELSE "null"

\* The award condition without the comparison of the old status.
AwardFires_IgnoringOld(old, new) == SqlEq(new.status, "awarded") = "true"

\* IF NEW.status = 'awarded' AND OLD.status != 'awarded'.
AwardFires(old, new) ==
    SqlAnd(SqlEq(new.status, "awarded"), SqlNe(old.status, "awarded")) = "true"

\* The award UPDATE setting workflow_stage to 'reported'.
AwardIssueUpdate_Reported(tbl, new) ==
    [k \in DOMAIN tbl |->
        IF k = new.source_issue_id
        THEN [tbl[k] EXCEPT !.workflow_stage = "reported",
                            !.status = "in_progress",
                            !.current_assignee_id = new.awarded_to]
        ELSE tbl[k]]

\* The award UPDATE leaving workflow_stage as it was.
AwardIssueUpdate_NoStage(tbl, new) ==
    [k \in DOMAIN tbl |->
        IF k = new.source_issue_id
        THEN [tbl[k] EXCEPT !.status = "in_progress",
                            !.current_assignee_id = new.awarded_to]
        ELSE tbl[k]]

\* UPDATE issues SET workflow_stage = 'contractor_assigned', status =
\* 'in_progress', current_assignee_id = NEW.awarded_to WHERE id =
\* NEW.source_issue_id.
AwardIssueUpdate(tbl, new) ==
    [k \in DOMAIN tbl |->
        IF k = new.source_issue_id
        THEN [tbl[k] EXCEPT !.workflow_stage = "contractor_assigned",
                            !.status = "in_progress",
                            !.current_assignee_id = new.awarded_to]
        ELSE tbl[k]]

\* The row inserted with status 'completed'.
AwardAssignmentRow_Completed(new, uid) ==
    [issue_id |-> new.source_issue_id,
     assigned_by |-> uid,
     assigned_to |-> new.awarded_to,
     assignment_type |-> "department_to_contractor",
     assignment_notes |-> "Tender awarded - contractor assigned",
     status |-> "completed"]

\* The row of INSERT INTO issue_assignments (...) VALUES (...); uid is auth.uid().
AwardAssignmentRow(new, uid) ==
    [issue_id |-> new.source_issue_id,
     assigned_by |-> uid,
     assigned_to |-> new.awarded_to,
     assignment_type |-> "department_to_contractor",
     assignment_notes |-> "Tender awarded - contractor assigned",
     status |-> "active"]

PrivilegedTypes == {"admin", "area_super_admin", "department_admin"}

\* The policy checking the author only, not the author's user_type.
CanCreateAssignment_AuthorOnly(uid, row) == SqlEq(uid, row.assigned_by) = "true"

\* Policy "Admins can create assignments": WITH CHECK (auth.uid() = assigned_by
\* AND EXISTS (a profile of auth.uid() with a privileged user_type)).
CanCreateAssignment(uid, row) ==
    /\ SqlEq(uid, row.assigned_by) = "true"
    /\ \E q \in DOMAIN profiles : q = uid /\ profiles[q].user_type \in PrivilegedTypes

AssignmentTypes == {"admin_to_area", "area_to_department", "department_to_contractor"}

AssignmentStatuses == {"active", "completed", "reassigned", "cancelled"}

\* The insert policy left out.
AssignmentInsertError_NoPolicy(uid, row) ==
    IF row.issue_id = NULL \/ row.assigned_by = NULL THEN "not_null_violation"
    ELSE IF row.assignment_type \notin AssignmentTypes \/ row.status \notin AssignmentStatuses
    THEN "check_violation"
    ELSE IF \/ row.issue_id \notin DOMAIN issues
            \/ row.assigned_by \notin DOMAIN profiles
            \/ (row.assigned_to # NULL /\ row.assigned_to \notin DOMAIN profiles)
    THEN "foreign_key_violation"
    ELSE "none"

\* What rejects the insert of row into issue_assignments by uid, "none" when
\* nothing does: the insert policy, then the NOT NULL columns, the CHECKs and
\* the foreign keys.
AssignmentInsertError(uid, row) ==
    IF ~CanCreateAssignment(uid, row) THEN "policy_violation"
    ELSE IF row.issue_id = NULL \/ row.assigned_by = NULL THEN "not_null_violation"
    ELSE IF row.assignment_type \notin AssignmentTypes \/ row.status \notin AssignmentStatuses
    THEN "check_violation"
    ELSE IF \/ row.issue_id \notin DOMAIN issues
            \/ row.assigned_by \notin DOMAIN profiles
            \/ (row.assigned_to # NULL /\ row.assigned_to \notin DOMAIN profiles)
    THEN "foreign_key_violation"
    ELSE "none"

\* UPDATE tenders SET status = st, awarded_to = to WHERE id = t, by uid: the row
\* changes, then the AFTER UPDATE trigger runs in the same statement; an error
\* in the trigger's INSERT rolls the whole statement back.
UpdateTender(uid, t, st, to) ==
    LET old == tenders[t]
        new == [old EXCEPT !.status = st, !.awarded_to = to]
        row == AwardAssignmentRow(new, uid)
        err == AssignmentInsertError(uid, row)
    IN
      /\ UNCHANGED clientVars
      /\ IF AwardFires(old, new)
         THEN /\ Len(issue_assignments) < MaxAssignments
              /\ IF err = "none"
                 THEN /\ tenders' = [tenders EXCEPT ![t] = new]
                      /\ issues' = AwardIssueUpdate(issues, new)
                      /\ issue_assignments' = Append(issue_assignments, row)
                 ELSE UNCHANGED <<tenders, issues, issue_assignments>>
              /\ lastStmt' = Stmt("update_tender", t, old.status, err)
         ELSE /\ tenders' = [tenders EXCEPT ![t] = new]
              /\ lastStmt' = Stmt("update_tender", t, old.status, "none")
              /\ UNCHANGED <<issues, issue_assignments>>
      /\ UNCHANGED <<areas, profiles, auth_users, issue_votes, voteTrace>>

(***************************************************************************)
(* Statements of callers on issue_assignments, and the deletion of issues. *)
(***************************************************************************)
\* INSERT INTO issue_assignments by uid, the row giving the columns of row and
\* the defaults for the rest.
InsertAssignment(uid, row) ==
    LET err == AssignmentInsertError(uid, row) IN
      /\ UNCHANGED clientVars
      /\ Len(issue_assignments) < MaxAssignments
      /\ issue_assignments' = IF err = "none" THEN Append(issue_assignments, row)
                              ELSE issue_assignments
      /\ lastStmt' = Stmt("insert_assignment", uid, NULL, err)
      /\ UNCHANGED <<areas, profiles, auth_users, issues, tenders, issue_votes, voteTrace>>

\* Policy "Users can read relevant assignments", FOR SELECT.
CanReadAssignment(uid, row) ==
    \/ SqlEq(row.assigned_by, uid) = "true"
    \/ SqlEq(row.assigned_to, uid) = "true"
    \/ \E q \in DOMAIN profiles : q = uid /\ profiles[q].user_type \in PrivilegedTypes

\* The rows an UPDATE or DELETE could touch if the SELECT policy were FOR ALL.
CanChangeAssignment_AsRead(uid, row) == CanReadAssignment(uid, row)

\* The rows of issue_assignments an UPDATE or a DELETE by uid can touch: row
\* level security is enabled and no policy is FOR UPDATE, FOR DELETE or FOR ALL,
\* so none.
CanChangeAssignment(uid, row) == FALSE

\* UPDATE issue_assignments SET status = st WHERE id = (the id of row n), by
\* uid, st being one of the statuses of the CHECK: the rows the policies hide
\* are not matched and the statement succeeds.
UpdateAssignment(uid, n, st) ==
    /\ UNCHANGED clientVars
    /\ n \in 1..Len(issue_assignments)
    /\ issue_assignments' =
          [k \in 1..Len(issue_assignments) |->
              IF k = n /\ CanChangeAssignment(uid, issue_assignments[k])
              THEN [issue_assignments[k] EXCEPT !.status = st]
              ELSE issue_assignments[k]]
    /\ lastStmt' = Stmt("update_assignment", uid, NULL, "none")
    /\ UNCHANGED <<areas, profiles, auth_users, issues, tenders, issue_votes, voteTrace>>

\* DELETE FROM issue_assignments WHERE id = (the id of row n), by uid.
DeleteAssignment(uid, n) ==
    /\ UNCHANGED clientVars
    /\ n \in 1..Len(issue_assignments)
    /\ issue_assignments' =
          IF CanChangeAssignment(uid, issue_assignments[n])
          THEN SubSeq(issue_assignments, 1, n - 1)
                 \o SubSeq(issue_assignments, n + 1, Len(issue_assignments))
          ELSE issue_assignments
    /\ lastStmt' = Stmt("delete_assignment", uid, NULL, "none")
    /\ UNCHANGED <<areas, profiles, auth_users, issues, tenders, issue_votes, voteTrace>>

\* The rows of a sequence table that do not reference issue key.
RECURSIVE WithoutIssue(_, _)
WithoutIssue(rows, key) ==
    IF rows = <<>> THEN <<>>
    ELSE IF Head(rows).issue_id = key THEN WithoutIssue(Tail(rows), key)
    ELSE <<Head(rows)>> \o WithoutIssue(Tail(rows), key)

\* DELETE FROM issues WHERE id = key, for an issue without votes: the rows of
\* issue_assignments and work_progress that reference it go with it (ON DELETE
\* CASCADE) and the tenders that reference it get source_issue_id NULL (ON
\* DELETE SET NULL).
DeleteIssue(key) ==
    /\ key \in DOMAIN issues
    /\ \A v \in DOMAIN issue_votes : issue_votes[v].issue_id # key
    /\ issues' = DeleteRow(issues, key)
    /\ issue_assignments' = WithoutIssue(issue_assignments, key)
    /\ tenders' = [t \in DOMAIN tenders |->
                     IF tenders[t].source_issue_id = key
                     THEN [tenders[t] EXCEPT !.source_issue_id = NULL]
                     ELSE tenders[t]]
    /\ work_progress' = [k \in {x \in DOMAIN work_progress :
                                    work_progress[x].issue_id # key} |-> work_progress[k]]
    /\ lastStmt' = Stmt("delete_issue", key, NULL, "none")
    /\ UNCHANGED <<areas, profiles, auth_users, issue_votes, voteTrace>>
    /\ UNCHANGED <<trackerVars, alert, pc, closure, payload, flowTrace, screenVars,
                    detached, listVars>>

(***************************************************************************)
(* handle_new_user: AFTER INSERT ON auth.users, SECURITY DEFINER.          *)
(***************************************************************************)
UserTypes == {"user", "admin", "area_super_admin", "department_admin", "tender"}

\* The keys of raw_user_meta_data the trigger reads. A metadata object is a
\* function from the keys it carries to their values, NULL for a JSON null.
MetaKeys == {"user_type", "full_name", "first_name", "last_name"}

\* meta->>key: NULL when the object does not carry the key or carries null.
JsonText(meta, key) == IF key \in DOMAIN meta THEN meta[key] ELSE NULL

\* COALESCE taking its second argument whatever the first is.
COALESCE_Second(a, b) == b

\* COALESCE(a, b) with b non-null.
COALESCE(a, b) == IF a # NULL THEN a ELSE b

\* The row of INSERT INTO profiles (...) VALUES (...), for the new auth.users
\* row new under id; now() columns are left out.
NewProfileRow(id, new) ==
    [id |-> id,
     email |-> new.email,
     user_type |-> COALESCE(JsonText(new.raw_user_meta_data, "user_type"), "user"),
     full_name |-> COALESCE(JsonText(new.raw_user_meta_data, "full_name"), ""),
     first_name |-> COALESCE(JsonText(new.raw_user_meta_data, "first_name"), ""),
     last_name |-> COALESCE(JsonText(new.raw_user_meta_data, "last_name"), "")]

\* The insert with profiles_user_type_check left out.
ProfileInsertError_NoCheck(id, row) ==
    IF id \in DOMAIN profiles THEN "duplicate_key" ELSE "none"

\* What rejects the trigger's INSERT INTO profiles, "none" when nothing does:
\* the primary key, then profiles_user_type_check.
ProfileInsertError(id, row) ==
    IF id \in DOMAIN profiles THEN "duplicate_key"
    ELSE IF row.user_type \notin UserTypes THEN "check_violation"
    ELSE "none"

\* INSERT INTO auth.users (id, email, raw_user_meta_data): the row is stored,
\* then the AFTER INSERT trigger inserts the profile in the same statement; an
\* error there rolls the statement back.
CreateUser(id, email, meta) ==
    LET new == [email |-> email, raw_user_meta_data |-> meta]
        row == NewProfileRow(id, new)
        err == IF id \in DOMAIN auth_users THEN "duplicate_key"
               ELSE ProfileInsertError(id, row)
    IN
      /\ UNCHANGED clientVars
      /\ IF err = "none"
         THEN /\ auth_users' = InsertRow(auth_users, id, new)
              /\ profiles' = InsertRow(profiles, id, row)
         ELSE UNCHANGED <<auth_users, profiles>>
      /\ lastStmt' = Stmt("insert_user", id, NULL, err)
      /\ UNCHANGED <<areas, issues, tenders, issue_assignments, issue_votes, voteTrace>>

(***************************************************************************)
(* WorkProgressTracker inside ContractorWorkScreen.                        *)
(***************************************************************************)
\* The pictures of the device, in the order the model attaches them.
AssetIndexes == 1..MaxImages

Asset(j) == [uri |-> <<"file", j>>, index |-> j]

WorkProgressIds == {"wp1"}

\* assignedWork as loadWorkData leaves it: a tender with its source issue and
\* one without; a work item is held by its tender id, the joined source_issue by
\* the id of the issue.
assignedWork ==
    [t \in {"t1", "t3"} |->
        [id |-> t, source_issue_id |-> IF t = "t1" THEN "i1" ELSE NULL]]

WorkItems == DOMAIN assignedWork

\* useState({...}): the form as the component starts with it.
InitialProgressData ==
    [title |-> "",
     description |-> "",
     progress_percentage |-> 0,
     status |-> "in_progress",
     materials_used |-> <<>>,
     labor_hours |-> "",
     expenses_incurred |-> "",
     milestone_reached |-> "",
     next_milestone |-> "",
     contractor_notes |-> ""]

\* issueId={selectedWorkItem?.source_issue?.id}, with the parameter default null.
IssueIdProp ==
    IF selectedWorkItem = NULL THEN NULL
    ELSE assignedWork[selectedWorkItem].source_issue_id

\* tenderId={selectedWorkItem?.id}, with the parameter default null.
TenderIdProp ==
    IF selectedWorkItem = NULL THEN NULL ELSE assignedWork[selectedWorkItem].id

\* The tracker is in the tree (the screen is not showing its loading view), its
\* modal is up and no Alert covers it.
TrackerUsable == ~screenLoading /\ showProgressTracker /\ alert = "none"

\* !text of a string: only the empty string is falsy.
Falsy(text) == text = ""

\* The validation looking at the title alone.
Invalid_TitleOnly(pd) == Falsy(pd.title)

\* !progressData.title || !progressData.description.
Invalid(pd) == Falsy(pd.title) \/ Falsy(pd.description)

\* parseInt / parseFloat of the texts the model types: the number a text
\* starts with, NaN when it starts with none.
NaN == [nan |-> TRUE, val |-> 0]

Num(n) == [nan |-> FALSE, val |-> n]

ParseNumber(text) ==
    CASE text = "8" -> Num(8)
      [] text = "50" -> Num(50)
      [] text = "150" -> Num(150)
      [] text = "0" -> Num(0)
      [] text = "8 h" -> Num(8)
      [] OTHER -> NaN

\* x || 1.
OrZero_OrOne(x) == IF x.nan \/ x.val = 0 THEN 1 ELSE x.val

\* x || 0 of a number: NaN and 0 are falsy.
OrZero(x) == IF x.nan \/ x.val = 0 THEN 0 ELSE x.val

\* m.trim() of the material texts the model types.
Trim(m) == CASE m = " " -> "" [] m = " sand " -> "sand" [] OTHER -> m

\* list.filter(m => m.trim()).
RECURSIVE FilterNonBlank(_)
FilterNonBlank(list) ==
    IF list = <<>> THEN <<>>
    ELSE IF Falsy(Trim(Head(list))) THEN FilterNonBlank(Tail(list))
    ELSE <<Head(list)>> \o FilterNonBlank(Tail(list))

\* text.split(',') of the material texts the model types.
Split(text) ==
    CASE text = "sand, ,gravel" -> <<"sand", " ", "gravel">>
      [] text = " , " -> <<" ", " ">>
      [] OTHER -> <<text>>

\* list.map(m => m.trim()).filter(m => m).
RECURSIVE TrimmedNonEmpty(_)
TrimmedNonEmpty(list) ==
    IF list = <<>> THEN <<>>
    ELSE IF Falsy(Trim(Head(list))) THEN TrimmedNonEmpty(Tail(list))
    ELSE <<Trim(Head(list))>> \o TrimmedNonEmpty(Tail(list))

\* selectedImages.map(img => img.uri).
RECURSIVE ImageUris(_)
ImageUris(images) ==
    IF images = <<>> THEN <<>> ELSE <<Head(images).uri>> \o ImageUris(Tail(images))

\* The public URL the media store gives an uploaded file.
Url(uri) == [stored |-> uri]

\* uploadMultipleImages(uris) when it returns: ok[j] tells whether the upload of
\* uris[j] succeeded; the result lists the successes, with their URLs, and the
\* failures.
RECURSIVE UploadResult(_, _, _)
UploadResult(uris, ok, j) ==
    IF j > Len(uris) THEN [successful |-> <<>>, failed |-> <<>>]
    ELSE LET rest == UploadResult(uris, ok, j + 1) IN
         IF ok[j]
         THEN [rest EXCEPT !.successful = <<[url |-> Url(uris[j])]>> \o @]
         ELSE [rest EXCEPT !.failed = <<[uri |-> uris[j]]>> \o @]

\* uploadResult.successful.map(result => result.url).
RECURSIVE MapUrl(_)
MapUrl(results) ==
    IF results = <<>> THEN <<>> ELSE <<Head(results).url>> \o MapUrl(Tail(results))

\* The URLs taken only when more than one upload succeeded.
ImageUrlsOf_MoreThanOne(uploadResult) ==
    IF Len(uploadResult.successful) > 1 THEN MapUrl(uploadResult.successful) ELSE <<>>

\* let imageUrls = []; if (uploadResult.successful.length > 0) imageUrls = ...
ImageUrlsOf(uploadResult) ==
    IF Len(uploadResult.successful) > 0 THEN MapUrl(uploadResult.successful) ELSE <<>>

\* progressPayload: the form the call closed over, the ids, the image URLs and
\* the three normalised fields.
ProgressPayload(c, imageUrls) ==
    [title |-> c.progressData.title,
     description |-> c.progressData.description,
     progress_percentage |-> c.progressData.progress_percentage,
     status |-> c.progressData.status,
     milestone_reached |-> c.progressData.milestone_reached,
     next_milestone |-> c.progressData.next_milestone,
     contractor_notes |-> c.progressData.contractor_notes,
     issue_id |-> c.issueId,
     tender_id |-> c.tenderId,
     images |-> imageUrls,
     materials_used |-> FilterNonBlank(c.progressData.materials_used),
     labor_hours |-> OrZero(ParseNumber(c.progressData.labor_hours)),
     expenses_incurred |-> OrZero(ParseNumber(c.progressData.expenses_incurred))]

NoClosure == [progressData |-> InitialProgressData, selectedImages |-> <<>>,
              issueId |-> NULL, tenderId |-> NULL]

NoPayload == ProgressPayload(NoClosure, <<>>)

\* The handleSubmit in flight or behind the Alert on screen: the URIs it sent, which
\* of their uploads succeeded, the network calls it has made, the rows stored when
\* it started and how it ended.
NoFlowTrace == [uris |-> <<>>, ok |-> <<>>, uploads |-> 0, inserts |-> 0,
                rowsBefore |-> {}, result |-> "none"]

\* SQL NULL in the integer column progress_percentage, which is not declared
\* NOT NULL: a number that no statement of the model gives as a value.
NullInteger == -99

\* useState([]) of existingProgress; a loaded list is held by the work item it
\* was asked for.
NoProgressList == "empty"

\* No handleSubmit of an unmounted tracker is running.
NoDetached == [pc |-> "idle", closure |-> NoClosure, payload |-> NoPayload, uris |-> <<>>]

\* The CHECK constraints of work_progress on a row. A CHECK is satisfied when
\* its expression is NULL, as it is for a NULL progress_percentage.
WorkProgressChecks(row) ==
    /\ \/ row.progress_percentage = NullInteger
       \/ (row.progress_percentage >= 0 /\ row.progress_percentage <= 100)
    /\ row.status \in {"not_started", "in_progress", "completed", "on_hold", "cancelled"}

\* A loadExistingProgress call: the work item it asks for, whether the tracker
\* that made it has been unmounted since, and what getWorkProgress returned
\* ("none" while it is awaited, then "data" or "error").
Request(workItem) == [item |-> workItem, stale |-> FALSE, result |-> "none"]

\* The component's state as a mount creates it. The loadExistingProgress calls
\* of the tracker that went away stay outstanding.
FreshTracker ==
    /\ progressData' = InitialProgressData
    /\ selectedImages' = <<>>
    /\ loading' = FALSE
    /\ existingProgress' = NoProgressList
    /\ requests' = {[r EXCEPT !.stale = TRUE] : r \in {q \in requests : q.result = "none"}}

\* LoadWorkDataStart with the tracker staying in the tree while the screen
\* loads.
LoadWorkDataStart_TrackerStays ==
    /\ screenLoading' = TRUE
    /\ UNCHANGED <<trackerVars, listVars>>

\* loadWorkData() up to its first await: setLoading(true) puts the loading view
\* on screen, which takes the tracker out of the tree; its state is gone.
LoadWorkDataStart ==
    /\ screenLoading' = TRUE
    /\ FreshTracker

\* loadWorkData() from its last await on: the catch raises an Alert when a
\* request failed; finally setLoading(false) renders the list and a new tracker.
LoadWorkDataDone(failed) ==
    /\ screenLoading /\ alert = "none"
    /\ screenLoading' = FALSE
    /\ alert' = IF failed THEN "load_failed" ELSE "none"
    /\ UNCHANGED <<work_progress, trackerVars, pc, closure, payload, flowTrace,
                   showProgressTracker, selectedWorkItem>>
    /\ UNCHANGED dbVars
    /\ UNCHANGED <<detached, listVars>>

\* onRefresh: pulling the list down.
OnRefresh ==
    /\ ~screenLoading /\ ~showProgressTracker /\ alert = "none" /\ pc = "idle"
    /\ LoadWorkDataStart
    /\ UNCHANGED <<work_progress, alert, pc, closure, payload, flowTrace,
                   showProgressTracker, selectedWorkItem>>
    /\ UNCHANGED dbVars
    /\ UNCHANGED detached

\* handleTrackProgress(workItem): the Track Progress button of a list entry.
\* The render that follows makes the tracker visible with the item's ids, and
\* its effect on [visible, issueId, tenderId] calls loadExistingProgress.
HandleTrackProgress(workItem) ==
    /\ ~screenLoading /\ ~showProgressTracker /\ alert = "none"
    /\ DOMAIN work_progress # WorkProgressIds
    /\ selectedWorkItem' = workItem
    /\ showProgressTracker' = TRUE
    /\ requests' = requests \cup {Request(workItem)}
    /\ UNCHANGED <<work_progress, trackerVars, alert, pc, closure, payload, flowTrace,
                   screenLoading, detached, existingProgress>>
    /\ UNCHANGED dbVars

\* ProgressLoaded with the response of an unmounted tracker's call taken as if
\* that tracker were the one on screen.
ProgressLoaded_AnyTracker(r, failed) ==
    /\ r \in requests /\ r.result = "none"
    /\ requests' = (requests \ {r})
                      \cup {[r EXCEPT !.result = IF failed THEN "error" ELSE "data"]}
    /\ existingProgress' = IF failed THEN existingProgress ELSE r.item
    /\ UNCHANGED <<work_progress, trackerVars, alert, pc, closure, payload, flowTrace,
                   screenVars, detached>>
    /\ UNCHANGED dbVars

\* await getWorkProgress(contractorId, issueId, tenderId) of loadExistingProgress
\* returns for the call r: setExistingProgress(data || []) when there is no
\* error, only console.error when there is. The setExistingProgress of a
\* tracker that has been unmounted changes nothing.
ProgressLoaded(r, failed) ==
    /\ r \in requests /\ r.result = "none"
    /\ requests' = (requests \ {r})
                      \cup {[r EXCEPT !.result = IF failed THEN "error" ELSE "data"]}
    /\ existingProgress' = IF failed \/ r.stale THEN existingProgress ELSE r.item
    /\ UNCHANGED <<work_progress, trackerVars, alert, pc, closure, payload, flowTrace,
                   screenVars, detached>>
    /\ UNCHANGED dbVars

\* The onClose without setSelectedWorkItem(null).
OnClose_KeepItem ==
    /\ showProgressTracker' = FALSE
    /\ UNCHANGED selectedWorkItem
    /\ LoadWorkDataStart

\* The onClose the screen gives the tracker.
OnClose ==
    /\ showProgressTracker' = FALSE
    /\ selectedWorkItem' = NULL
    /\ LoadWorkDataStart

\* The tracker is unmounted while its handleSubmit is awaiting: the call goes
\* on with what it closed over. One such call is followed at a time.
Detach ==
    /\ detached.pc = "idle"
    /\ detached' = [pc |-> pc, closure |-> closure, payload |-> payload,
                    uris |-> flowTrace.uris]
    /\ pc' = "idle"
    /\ closure' = NoClosure
    /\ payload' = NoPayload

\* The X button of the modal's header, which is not disabled while loading,
\* pressed during a submission.
ClosePressInFlight ==
    /\ TrackerUsable /\ pc # "idle"
    /\ OnClose
    /\ Detach
    /\ flowTrace' = NoFlowTrace
    /\ UNCHANGED <<work_progress, alert>>
    /\ UNCHANGED dbVars

\* The X button of the modal's header.
ClosePress ==
    /\ TrackerUsable /\ pc = "idle"
    /\ OnClose
    /\ UNCHANGED <<work_progress, alert, pc, closure, payload, flowTrace>>
    /\ UNCHANGED dbVars
    /\ UNCHANGED detached

\* onChangeText of the title and description inputs.
ChangeTitle(text) ==
    /\ TrackerUsable
    /\ progressData' = [progressData EXCEPT !.title = text]
    /\ UNCHANGED <<work_progress, selectedImages, loading, alert, pc, closure, payload,
                   flowTrace, screenVars>>
    /\ UNCHANGED dbVars
    /\ UNCHANGED <<detached, listVars>>

ChangeDescription(text) ==
    /\ TrackerUsable
    /\ progressData' = [progressData EXCEPT !.description = text]
    /\ UNCHANGED <<work_progress, selectedImages, loading, alert, pc, closure, payload,
                   flowTrace, screenVars>>
    /\ UNCHANGED dbVars
    /\ UNCHANGED <<detached, listVars>>

\* onChangeText of the Progress % input: parseInt(text) || 0.
ChangeProgress(text) ==
    /\ TrackerUsable
    /\ progressData' = [progressData EXCEPT
                           !.progress_percentage = OrZero(ParseNumber(text))]
    /\ UNCHANGED <<work_progress, selectedImages, loading, alert, pc, closure, payload,
                   flowTrace, screenVars>>
    /\ UNCHANGED dbVars
    /\ UNCHANGED <<detached, listVars>>

\* onChangeText of the Labor Hours and Expenses inputs: the text is kept as typed.
ChangeLaborHours(text) ==
    /\ TrackerUsable
    /\ progressData' = [progressData EXCEPT !.labor_hours = text]
    /\ UNCHANGED <<work_progress, selectedImages, loading, alert, pc, closure, payload,
                   flowTrace, screenVars>>
    /\ UNCHANGED dbVars
    /\ UNCHANGED <<detached, listVars>>

ChangeExpenses(text) ==
    /\ TrackerUsable
    /\ progressData' = [progressData EXCEPT !.expenses_incurred = text]
    /\ UNCHANGED <<work_progress, selectedImages, loading, alert, pc, closure, payload,
                   flowTrace, screenVars>>
    /\ UNCHANGED dbVars
    /\ UNCHANGED <<detached, listVars>>

\* onChangeText of the Materials Used input.
ChangeMaterials(text) ==
    /\ TrackerUsable
    /\ progressData' = [progressData EXCEPT !.materials_used = TrimmedNonEmpty(Split(text))]
    /\ UNCHANGED <<work_progress, selectedImages, loading, alert, pc, closure, payload,
                   flowTrace, screenVars>>
    /\ UNCHANGED dbVars
    /\ UNCHANGED <<detached, listVars>>

\* onPress of a status option.
ChangeStatus(status) ==
    /\ TrackerUsable
    /\ progressData' = [progressData EXCEPT !.status = status]
    /\ UNCHANGED <<work_progress, selectedImages, loading, alert, pc, closure, payload,
                   flowTrace, screenVars>>
    /\ UNCHANGED dbVars
    /\ UNCHANGED <<detached, listVars>>

\* The assets a picker can return: some of the pictures after the last selected
\* one, in order.
RECURSIVE InOrder(_)
InOrder(indexes) ==
    IF indexes = {} THEN <<>>
    ELSE LET j == CHOOSE x \in indexes : \A y \in indexes : x <= y
         IN <<Asset(j)>> \o InOrder(indexes \ {j})

LastIndex(images) == IF images = <<>> THEN 0 ELSE images[Len(images)].index

Pickable(images) == {j \in AssetIndexes : j > LastIndex(images)}

\* pickImages when the picker is not cancelled: result.assets are appended.
PickImages(indexes) ==
    /\ TrackerUsable
    /\ indexes # {} /\ indexes \subseteq Pickable(selectedImages)
    /\ selectedImages' = selectedImages \o InOrder(indexes)
    /\ UNCHANGED <<work_progress, progressData, loading, alert, pc, closure, payload,
                   flowTrace, screenVars>>
    /\ UNCHANGED dbVars
    /\ UNCHANGED <<detached, listVars>>

\* takePhoto when the camera is not cancelled: the one new asset is appended.
TakePhoto(j) ==
    /\ TrackerUsable
    /\ j \in Pickable(selectedImages)
    /\ selectedImages' = selectedImages \o <<Asset(j)>>
    /\ UNCHANGED <<work_progress, progressData, loading, alert, pc, closure, payload,
                   flowTrace, screenVars>>
    /\ UNCHANGED dbVars
    /\ UNCHANGED <<detached, listVars>>

\* removeImage(index), with the index counted from 1.
RemoveImage(index) ==
    /\ TrackerUsable
    /\ index \in 1..Len(selectedImages)
    /\ selectedImages' = SubSeq(selectedImages, 1, index - 1)
                           \o SubSeq(selectedImages, index + 1, Len(selectedImages))
    /\ UNCHANGED <<work_progress, progressData, loading, alert, pc, closure, payload,
                   flowTrace, screenVars>>
    /\ UNCHANGED dbVars
    /\ UNCHANGED <<detached, listVars>>

\* catch (error) { Alert.alert('Error', ...) } without the finally.
CatchAndFinally_NoFinally ==
    /\ alert' = "failure"
    /\ UNCHANGED loading

\* catch (error) { Alert.alert('Error', ...) } finally { setLoading(false) }.
CatchAndFinally ==
    /\ alert' = "failure"
    /\ loading' = FALSE

\* handleSubmit up to its first await, or to its return when the form is
\* rejected. The Send button is disabled while loading.
HandleSubmit ==
    /\ TrackerUsable /\ ~loading /\ pc = "idle"
    /\ IF Invalid(progressData)
       THEN /\ alert' = "validation"
            /\ UNCHANGED <<work_progress, trackerVars, pc, closure, payload, flowTrace,
                           screenVars>>
       ELSE LET c == [progressData |-> progressData, selectedImages |-> selectedImages,
                      issueId |-> IssueIdProp, tenderId |-> TenderIdProp]
                t == [NoFlowTrace EXCEPT !.rowsBefore = DOMAIN work_progress]
            IN /\ loading' = TRUE
               /\ IF Len(selectedImages) > 0
                  THEN /\ pc' = "uploading"
                       /\ closure' = c
                       /\ payload' = NoPayload
                       /\ flowTrace' = [t EXCEPT !.uris = ImageUris(selectedImages),
                                                 !.uploads = 1]
                  ELSE /\ pc' = "inserting"
                       /\ closure' = NoClosure
                       /\ payload' = ProgressPayload(c, <<>>)
                       /\ flowTrace' = [t EXCEPT !.inserts = 1]
               /\ UNCHANGED <<work_progress, progressData, selectedImages, alert,
                              screenVars>>
    /\ UNCHANGED dbVars
    /\ UNCHANGED <<detached, listVars>>

\* await uploadMultipleImages(imageUris) returns; the payload is assembled and
\* submitWorkProgress is called.
UploadReturns(ok) ==
    /\ pc = "uploading" /\ alert = "none"
    /\ DOMAIN ok = 1..Len(flowTrace.uris)
    /\ LET uploadResult == UploadResult(flowTrace.uris, ok, 1)
       IN payload' = ProgressPayload(closure, ImageUrlsOf(uploadResult))
    /\ pc' = "inserting"
    /\ closure' = NoClosure
    /\ flowTrace' = [flowTrace EXCEPT !.ok = ok, !.inserts = @ + 1]
    /\ UNCHANGED <<work_progress, trackerVars, alert, screenVars>>
    /\ UNCHANGED dbVars
    /\ UNCHANGED <<detached, listVars>>

\* await uploadMultipleImages(imageUris) throws.
UploadThrows ==
    /\ pc = "uploading" /\ alert = "none"
    /\ CatchAndFinally
    /\ pc' = "idle"
    /\ closure' = NoClosure
    /\ flowTrace' = [flowTrace EXCEPT !.result = "upload_threw"]
    /\ UNCHANGED <<work_progress, progressData, selectedImages, payload, screenVars>>
    /\ UNCHANGED dbVars
    /\ UNCHANGED <<detached, listVars>>

\* await submitWorkProgress(progressPayload) returns without an error: the row is
\* stored and the success Alert is shown; finally setLoading(false).
InsertReturnsOk(id) ==
    /\ pc = "inserting" /\ alert = "none"
    /\ id \notin DOMAIN work_progress
    /\ WorkProgressChecks(payload)
    /\ work_progress' = InsertRow(work_progress, id, payload)
    /\ alert' = "success"
    /\ loading' = FALSE
    /\ pc' = "idle"
    /\ payload' = NoPayload
    /\ flowTrace' = [flowTrace EXCEPT !.result = "ok"]
    /\ UNCHANGED <<progressData, selectedImages, closure, screenVars>>
    /\ UNCHANGED dbVars
    /\ UNCHANGED <<detached, listVars>>

\* await submitWorkProgress(progressPayload) returns { error }: nothing is stored.
InsertReturnsError ==
    /\ pc = "inserting" /\ alert = "none"
    /\ CatchAndFinally
    /\ pc' = "idle"
    /\ payload' = NoPayload
    /\ flowTrace' = [flowTrace EXCEPT !.result = "insert_error"]
    /\ UNCHANGED <<work_progress, progressData, selectedImages, closure, screenVars>>
    /\ UNCHANGED dbVars
    /\ UNCHANGED <<detached, listVars>>

\* The button of the Alert on screen. The success Alert's OK resets the form,
\* clears the images and calls onClose; the others only go away.
DismissAlert ==
    /\ alert # "none"
    /\ alert' = "none"
    /\ flowTrace' = NoFlowTrace
    /\ IF alert = "success"
       THEN /\ OnClose
            /\ IF pc = "idle" THEN UNCHANGED <<pc, closure, payload, detached>> ELSE Detach
       ELSE UNCHANGED <<trackerVars, screenVars, listVars, pc, closure, payload, detached>>
    /\ UNCHANGED work_progress
    /\ UNCHANGED dbVars

\* The steps of the handleSubmit of an unmounted tracker. Its setLoading and
\* the form reset of its success Alert are calls on an unmounted component and
\* change nothing; its Alerts and the onClose of its success Alert act on the
\* screen as ever.
DetachedUploadReturns(ok) ==
    /\ detached.pc = "uploading" /\ alert = "none"
    /\ DOMAIN ok = 1..Len(detached.uris)
    /\ LET uploadResult == UploadResult(detached.uris, ok, 1)
       IN detached' = [detached EXCEPT
                          !.pc = "inserting",
                          !.closure = NoClosure,
                          !.payload = ProgressPayload(detached.closure,
                                                      ImageUrlsOf(uploadResult))]
    /\ UNCHANGED <<work_progress, trackerVars, alert, pc, closure, payload, flowTrace,
                   screenVars, listVars>>
    /\ UNCHANGED dbVars

DetachedUploadThrows ==
    /\ detached.pc = "uploading" /\ alert = "none"
    /\ alert' = "failure"
    /\ detached' = NoDetached
    /\ UNCHANGED <<work_progress, trackerVars, pc, closure, payload, flowTrace,
                   screenVars, listVars>>
    /\ UNCHANGED dbVars

DetachedInsertReturnsOk(id) ==
    /\ detached.pc = "inserting" /\ alert = "none"
    /\ id \notin DOMAIN work_progress
    /\ WorkProgressChecks(detached.payload)
    /\ work_progress' = InsertRow(work_progress, id, detached.payload)
    /\ alert' = "success"
    /\ detached' = NoDetached
    /\ UNCHANGED <<trackerVars, pc, closure, payload, flowTrace, screenVars, listVars>>
    /\ UNCHANGED dbVars

DetachedInsertReturnsError ==
    /\ detached.pc = "inserting" /\ alert = "none"
    /\ alert' = "failure"
    /\ detached' = NoDetached
    /\ UNCHANGED <<work_progress, trackerVars, pc, closure, payload, flowTrace,
                   screenVars, listVars>>
    /\ UNCHANGED dbVars

(***************************************************************************)
(* Statements of callers on work_progress.                                 *)
(***************************************************************************)
\* A stored work_progress row: the columns an insert gave, the contractor it
\* is stored for and NULL for the supervisor's columns.
StoredProgressRow(contractor_id, given) ==
    [contractor_id |-> contractor_id,
     issue_id |-> given.issue_id,
     tender_id |-> given.tender_id,
     title |-> given.title,
     description |-> given.description,
     progress_percentage |-> given.progress_percentage,
     status |-> given.status,
     images |-> given.images,
     materials_used |-> given.materials_used,
     labor_hours |-> given.labor_hours,
     expenses_incurred |-> given.expenses_incurred,
     supervisor_notes |-> NULL,
     contractor_notes |-> given.contractor_notes,
     milestone_reached |-> given.milestone_reached,
     next_milestone |-> given.next_milestone]

\* The policy admitting every caller.
CanManageWorkProgress_Anyone(uid, row) == TRUE

\* Policy "Contractors can manage own work progress", FOR ALL: USING
\* (auth.uid() = contractor_id OR EXISTS (a profile of auth.uid() with a
\* privileged user_type)); it is also the check on the row an INSERT or an
\* UPDATE leaves.
CanManageWorkProgress(uid, row) ==
    \/ SqlEq(uid, row.contractor_id) = "true"
    \/ \E q \in DOMAIN profiles : q = uid /\ profiles[q].user_type \in PrivilegedTypes

\* What rejects the row new of an INSERT or UPDATE of work_progress by uid,
\* "none" when nothing does: the policy, the NOT NULL columns, the CHECKs.
ProgressRowError(uid, new) ==
    IF ~CanManageWorkProgress(uid, new) THEN "policy_violation"
    ELSE IF new.title = NULL \/ new.description = NULL \/ new.contractor_id = NULL
    THEN "not_null_violation"
    ELSE IF ~WorkProgressChecks(new) THEN "check_violation"
    ELSE "none"

\* INSERT INTO work_progress of the columns of given for contractor_id, by uid.
InsertWorkProgress(uid, id, contractor_id, given) ==
    LET new == StoredProgressRow(contractor_id, given)
        err == ProgressRowError(uid, new)
    IN /\ id \notin DOMAIN work_progress
       /\ work_progress' = IF err = "none" THEN InsertRow(work_progress, id, new)
                           ELSE work_progress
       /\ lastStmt' = Stmt("insert_work_progress", uid, NULL, err)
       /\ UNCHANGED <<areas, profiles, auth_users, issues, tenders, issue_assignments,
                      issue_votes, voteTrace>>
       /\ UNCHANGED <<trackerVars, alert, pc, closure, payload, flowTrace, screenVars,
                    detached, listVars>>

\* UPDATE work_progress SET col = val WHERE id = id, by uid. A row the policy
\* hides is not matched, and an UPDATE that matches no row succeeds.
UpdateWorkProgress(uid, id, col, val) ==
    LET new == [work_progress[id] EXCEPT ![col] = val]
        err == IF CanManageWorkProgress(uid, work_progress[id])
               THEN ProgressRowError(uid, new) ELSE "none"
    IN /\ id \in DOMAIN work_progress
       /\ work_progress' = IF CanManageWorkProgress(uid, work_progress[id]) /\ err = "none"
                           THEN [work_progress EXCEPT ![id] = new]
                           ELSE work_progress
       /\ lastStmt' = Stmt("update_work_progress", uid, col, err)
       /\ UNCHANGED <<areas, profiles, auth_users, issues, tenders, issue_assignments,
                      issue_votes, voteTrace>>
       /\ UNCHANGED <<trackerVars, alert, pc, closure, payload, flowTrace, screenVars,
                    detached, listVars>>

\* DELETE FROM work_progress WHERE id = id, by uid.
DeleteWorkProgress(uid, id) ==
    /\ id \in DOMAIN work_progress
    /\ work_progress' = IF CanManageWorkProgress(uid, work_progress[id])
                        THEN DeleteRow(work_progress, id)
                        ELSE work_progress
    /\ lastStmt' = Stmt("delete_work_progress", uid, NULL, "none")
    /\ UNCHANGED <<areas, profiles, auth_users, issues, tenders, issue_assignments,
                   issue_votes, voteTrace>>
    /\ UNCHANGED <<trackerVars, alert, pc, closure, payload, flowTrace, screenVars,
                    detached, listVars>>

(***************************************************************************)
(* Specifications.                                                         *)
(***************************************************************************)
AreaNames == {NULL, "CBD", "RZA", "IND", "XYZ"}
SuppliedStages == {"reported", "resolved"}
Callers == {NULL, "p1", "p3"}
TenderStatuses == {NULL, "open", "awarded"}
AwardTargets == {NULL, "p3"}

\* Issues i1 and i2 as CreateIssue stores them.
TwoIssues ==
    [i \in {"i1", "i2"} |->
        StampWorkflowStage(IssueRow(IF i = "i1" THEN "CBD" ELSE NULL, "reported"))]

\* Two tenders for issue i1 and one without a source issue, none awarded.
InitTenders ==
    [t \in TenderIds |->
        [status |-> IF t = "t2" THEN NULL ELSE "open",
         awarded_to |-> NULL,
         source_issue_id |-> IF t = "t3" THEN NULL ELSE "i1"]]

\* The screen as it mounts: its first loadWorkData is in flight, nothing is selected
\* and no progress has been stored.
InitClient ==
    /\ work_progress = <<>>
    /\ progressData = InitialProgressData
    /\ selectedImages = <<>>
    /\ loading = FALSE
    /\ alert = "none"
    /\ pc = "idle"
    /\ closure = NoClosure
    /\ payload = NoPayload
    /\ flowTrace = NoFlowTrace
    /\ showProgressTracker = FALSE
    /\ selectedWorkItem = NULL
    /\ screenLoading = TRUE
    /\ detached = NoDetached
    /\ existingProgress = NoProgressList
    /\ requests = {}

InitTables(issueTable) ==
    /\ areas = InitAreas
    /\ profiles = InitProfiles
    /\ auth_users = InitUsers
    /\ issues = issueTable
    /\ tenders = InitTenders
    /\ issue_assignments = <<>>
    /\ issue_votes = <<>>
    /\ lastStmt = NoStmt
    /\ voteTrace = NoVoteTrace
    /\ InitClient

\* Issue creation.
InitIssues == InitTables(<<>>)

NextIssues ==
    \E key \in IssueIds, area \in AreaNames, stage \in SuppliedStages :
       CreateIssue(key, area, stage)

SpecIssues == InitIssues /\ [][NextIssues]_vars

\* Tender updates.
InitTender == InitTables(TwoIssues)

NextTender ==
    \E uid \in Callers, t \in TenderIds, st \in TenderStatuses, to \in AwardTargets :
       UpdateTender(uid, t, st, to)

SpecTender == InitTender /\ [][NextTender]_vars

\* Votes.
InitVotes == InitTables(TwoIssues)

NextVotes ==
    \/ \E v \in VoteIds, i \in IssueIds, ty \in VoteTypes : InsertVote(v, i, ty)
    \/ \E v \in VoteIds : DeleteVote(v)
    \/ \E v \in VoteIds, i \in IssueIds, ty \in VoteTypes : UpdateVote(v, i, ty)

SpecVotes == InitVotes /\ [][NextVotes]_vars

\* Issue creations and tender updates together.
WorkflowCallers == {"p1"}
WorkflowAreas == {"CBD"}
WorkflowTenders == {"t1", "t2"}
WorkflowStatuses == {"open", "awarded"}

InitWorkflow == InitTables(TwoIssues)

NextWorkflow ==
    \/ \E key \in IssueIds, area \in WorkflowAreas, stage \in SuppliedStages :
          CreateIssue(key, area, stage)
    \/ \E uid \in WorkflowCallers, t \in WorkflowTenders, st \in WorkflowStatuses,
          to \in AwardTargets : UpdateTender(uid, t, st, to)

SpecWorkflow == InitWorkflow /\ [][NextWorkflow]_vars

\* Statements on issue_assignments and deletions of issues.
AllCallers == {NULL, "p1", "p2", "p3"}

AssignmentRows ==
    [issue_id : {NULL, "i1", "i2"},
     assigned_by : {NULL, "p1", "p3"},
     assigned_to : {NULL, "p3"},
     assignment_type : {"department_to_contractor", "contractor_to_crew"},
     assignment_notes : {NULL},
     status : {"active"}]

InitAssignments == InitTables(TwoIssues)

NextAssignments ==
    \/ \E uid \in AllCallers, row \in AssignmentRows : InsertAssignment(uid, row)
    \/ \E uid \in AllCallers, n \in 1..(MaxAssignments + 1), st \in {"cancelled"} :
          UpdateAssignment(uid, n, st)
    \/ \E uid \in AllCallers, n \in 1..(MaxAssignments + 1) : DeleteAssignment(uid, n)
    \/ \E key \in IssueIds : DeleteIssue(key)

SpecAssignments == InitAssignments /\ [][NextAssignments]_vars

\* Statements on work_progress.
ProgressCallers == {NULL, "p1", "p3"}

GivenProgress ==
    ProgressPayload([progressData |-> [InitialProgressData EXCEPT
                                          !.title = "Road patch",
                                          !.description = "Filled two potholes"],
                     selectedImages |-> <<>>, issueId |-> "i1", tenderId |-> "t1"],
                    <<>>)

TextChanges ==
    {<<"title", "Second coat">>, <<"description", "Repainted">>, <<"status", "completed">>,
     <<"status", "abandoned">>, <<"supervisor_notes", "Approved">>}

NumberChanges == {<<"progress_percentage", 80>>, <<"progress_percentage", 150>>,
                  <<"progress_percentage", NullInteger>>, <<"labor_hours", 8>>}

InitProgress == InitTables(TwoIssues)

NextProgress ==
    \/ \E uid \in ProgressCallers, id \in WorkProgressIds :
          InsertWorkProgress(uid, id, "p3", GivenProgress)
    \/ \E uid \in ProgressCallers, id \in WorkProgressIds, change \in TextChanges :
          UpdateWorkProgress(uid, id, change[1], change[2])
    \/ \E uid \in ProgressCallers, id \in WorkProgressIds, change \in NumberChanges :
          UpdateWorkProgress(uid, id, change[1], change[2])
    \/ \E uid \in ProgressCallers, id \in WorkProgressIds : DeleteWorkProgress(uid, id)

SpecProgress == InitProgress /\ [][NextProgress]_vars

\* Sign-ups.
NewUserIds == {"u1", "u2"}
Emails == {"ann@mail", "lee@mail"}

MetaValues(key) ==
    CASE key = "user_type" -> {NULL, "admin", "tender", "superuser"}
      [] key = "full_name" -> {"Ann Lee"}
      [] key = "first_name" -> {"Ann"}
      [] OTHER -> {"Lee"}

Metas ==
    {meta \in UNION {[keys -> UNION {MetaValues(k) : k \in MetaKeys}] :
                         keys \in SUBSET MetaKeys} :
        \A k \in DOMAIN meta : meta[k] \in MetaValues(k)}

InitUsersSpec == InitTables(TwoIssues)

NextUsers ==
    \E id \in NewUserIds, email \in Emails, meta \in Metas : CreateUser(id, email, meta)

SpecUsers == InitUsersSpec /\ [][NextUsers]_vars

\* Sign-ups whose metadata names a user_type: each allowed one and two others.
SuppliedUserTypes == UserTypes \cup {"superuser", "Admin"}

TypeMetas == {[user_type |-> ty] : ty \in SuppliedUserTypes}
               \cup {[user_type |-> ty, first_name |-> "Ann"] : ty \in SuppliedUserTypes}

InitUserTypes == InitTables(TwoIssues)

NextUserTypes ==
    \E id \in NewUserIds, email \in Emails, meta \in TypeMetas : CreateUser(id, email, meta)

SpecUserTypes == InitUserTypes /\ [][NextUserTypes]_vars

\* The contractor's screen and the tracker.
TitleTexts == {"", "Road patch"}
DescriptionTexts == {"", "Filled two potholes"}
ProgressTexts == {"50", "150", "abc"}
StatusOptions == {"completed"}
\* Which uploads succeed, for every number of images.
UploadOutcomes == UNION {[1..n -> BOOLEAN] : n \in 1..MaxImages}

InitForm == InitTables(TwoIssues)

NextForm ==
    \/ \E failed \in BOOLEAN : LoadWorkDataDone(failed)
    \/ OnRefresh
    \/ \E workItem \in WorkItems : HandleTrackProgress(workItem)
    \/ ClosePress
    \/ \E text \in TitleTexts : ChangeTitle(text)
    \/ \E text \in DescriptionTexts : ChangeDescription(text)
    \/ \E text \in ProgressTexts : ChangeProgress(text)
    \/ \E status \in StatusOptions : ChangeStatus(status)
    \/ \E indexes \in SUBSET AssetIndexes : PickImages(indexes)
    \/ \E j \in AssetIndexes : TakePhoto(j)
    \/ \E index \in 1..MaxImages : RemoveImage(index)
    \/ HandleSubmit
    \/ \E ok \in UploadOutcomes : UploadReturns(ok)
    \/ UploadThrows
    \/ \E id \in WorkProgressIds : InsertReturnsOk(id)
    \/ InsertReturnsError
    \/ DismissAlert

SpecForm == InitForm /\ [][NextForm]_vars

\* The form's numeric and material inputs and the payload built from them.
LaborTexts == {"8", "abc"}
ExpenseTexts == {"150", "8 h"}
MaterialTexts == {"sand, ,gravel", " , ", " sand "}
PayloadTitles == {"Road patch"}
PayloadDescriptions == {"Filled two potholes"}
PayloadAssets == {1}

InitPayload == InitTables(TwoIssues)

NextPayload ==
    \/ \E failed \in BOOLEAN : LoadWorkDataDone(failed)
    \/ \E workItem \in WorkItems : HandleTrackProgress(workItem)
    \/ \E text \in PayloadTitles : ChangeTitle(text)
    \/ \E text \in PayloadDescriptions : ChangeDescription(text)
    \/ \E text \in LaborTexts : ChangeLaborHours(text)
    \/ \E text \in ExpenseTexts : ChangeExpenses(text)
    \/ \E text \in MaterialTexts : ChangeMaterials(text)
    \/ \E j \in PayloadAssets : TakePhoto(j)
    \/ HandleSubmit
    \/ \E ok \in UploadOutcomes : UploadReturns(ok)
    \/ UploadThrows
    \/ \E id \in WorkProgressIds : InsertReturnsOk(id)
    \/ InsertReturnsError
    \/ DismissAlert

SpecPayload == InitPayload /\ [][NextPayload]_vars

\* Submissions, the loading of the earlier progress and the closing of the modal
\* while either is running.
InitFlights == InitTables(TwoIssues)

NextFlights ==
    \/ \E failed \in BOOLEAN : LoadWorkDataDone(failed)
    \/ OnRefresh
    \/ \E workItem \in WorkItems : HandleTrackProgress(workItem)
    \/ ClosePress
    \/ ClosePressInFlight
    \/ \E text \in PayloadTitles : ChangeTitle(text)
    \/ \E text \in PayloadDescriptions : ChangeDescription(text)
    \/ \E j \in PayloadAssets : TakePhoto(j)
    \/ HandleSubmit
    \/ \E ok \in UploadOutcomes : UploadReturns(ok)
    \/ UploadThrows
    \/ \E id \in WorkProgressIds : InsertReturnsOk(id)
    \/ InsertReturnsError
    \/ \E ok \in UploadOutcomes : DetachedUploadReturns(ok)
    \/ DetachedUploadThrows
    \/ \E id \in WorkProgressIds : DetachedInsertReturnsOk(id)
    \/ DetachedInsertReturnsError
    \/ DismissAlert
    \/ \E workItem \in WorkItems, stale, failed \in BOOLEAN :
          ProgressLoaded([Request(workItem) EXCEPT !.stale = stale], failed)

SpecFlights == InitFlights /\ [][NextFlights]_vars

\* What is typed and photographed differs with the work item that is selected
\* at the time, so that a value shows the item it was entered for.
ItemTitle(workItem) == IF workItem = "t1" THEN "Road patch" ELSE "Drain cleared"

ItemDescription(workItem) ==
    IF workItem = "t1" THEN "Filled two potholes" ELSE "Removed the silt"

ItemAsset(workItem) == IF workItem = "t1" THEN 1 ELSE 2

InitItems == InitTables(TwoIssues)

NextItems ==
    \/ \E failed \in BOOLEAN : LoadWorkDataDone(failed)
    \/ OnRefresh
    \/ \E workItem \in WorkItems : HandleTrackProgress(workItem)
    \/ ClosePress
    \/ ClosePressInFlight
    \/ ChangeTitle(ItemTitle(selectedWorkItem))
    \/ ChangeDescription(ItemDescription(selectedWorkItem))
    \/ \E status \in StatusOptions : ChangeStatus(status)
    \/ TakePhoto(ItemAsset(selectedWorkItem))
    \/ \E index \in 1..MaxImages : RemoveImage(index)
    \/ HandleSubmit
    \/ \E ok \in UploadOutcomes : UploadReturns(ok)
    \/ UploadThrows
    \/ \E id \in WorkProgressIds : InsertReturnsOk(id)
    \/ InsertReturnsError
    \/ \E ok \in UploadOutcomes : DetachedUploadReturns(ok)
    \/ DetachedUploadThrows
    \/ \E id \in WorkProgressIds : DetachedInsertReturnsOk(id)
    \/ DetachedInsertReturnsError
    \/ DismissAlert

SpecItems == InitItems /\ [][NextItems]_vars

(***************************************************************************)
(* Claims about the triggers.                                              *)
(***************************************************************************)
\* C1: in every step in which a tender's status goes from a non-null value
\* other than 'awarded' to 'awarded', exactly one row is added to
\* issue_assignments, of type 'department_to_contractor' and for the tender's
\* source issue, the earlier rows are kept, and the source issue's
\* workflow_stage is 'contractor_assigned' afterwards.
C1_AwardCreatesOneAssignment ==
    [][\A t \in DOMAIN tenders :
          (tenders[t].status \notin {NULL, "awarded"} /\ tenders'[t].status = "awarded")
          => /\ Len(issue_assignments') = Len(issue_assignments) + 1
             /\ SubSeq(issue_assignments', 1, Len(issue_assignments)) = issue_assignments
             /\ LET row == issue_assignments'[Len(issue_assignments')] IN
                  /\ row.assignment_type = "department_to_contractor"
                  /\ row.issue_id = tenders'[t].source_issue_id
             /\ tenders'[t].source_issue_id \in DOMAIN issues'
             /\ issues'[tenders'[t].source_issue_id].workflow_stage = "contractor_assigned"
      ]_vars

\* An award transition from a non-null status has committed and its row is the
\* last one of issue_assignments.
C1_Witness ==
    /\ lastStmt.op = "update_tender" /\ lastStmt.ok
    /\ lastStmt.old = "open"
    /\ tenders[lastStmt.key].status = "awarded"
    /\ Len(issue_assignments) >= 1
    /\ issue_assignments[Len(issue_assignments)].issue_id = tenders[lastStmt.key].source_issue_id
    /\ issues[tenders[lastStmt.key].source_issue_id].workflow_stage = "contractor_assigned"

\* C2: a statement that updates a tender whose status is 'awarded' before and
\* after it adds no issue_assignments row and leaves every issue as it was.
C2_ResaveAwardedIsNoOp ==
    [][(/\ lastStmt'.op = "update_tender"
        /\ tenders[lastStmt'.key].status = "awarded"
        /\ tenders'[lastStmt'.key].status = "awarded")
       => /\ issue_assignments' = issue_assignments
          /\ issues' = issues
      ]_vars

\* An awarded tender has been updated, staying awarded, with another awarded_to
\* than the source issue's assignee.
C2_Witness ==
    /\ lastStmt.op = "update_tender" /\ lastStmt.ok
    /\ lastStmt.old = "awarded"
    /\ tenders[lastStmt.key].status = "awarded"
    /\ tenders[lastStmt.key].source_issue_id # NULL
    /\ tenders[lastStmt.key].awarded_to
         # issues[tenders[lastStmt.key].source_issue_id].current_assignee_id

\* C3: every issue's upvotes and downvotes are >= 0.
C3_CountersNonNegative ==
    \A i \in DOMAIN issues : issues[i].upvotes >= 0 /\ issues[i].downvotes >= 0

\* A vote has been deleted from an issue whose counters were both 0.
C3_Witness ==
    /\ voteTrace.op = "delete"
    /\ voteTrace.before = [upvotes |-> 0, downvotes |-> 0]
    /\ Counters(issues, voteTrace.issue_id) = [upvotes |-> 0, downvotes |-> 0]

\* C4: after a vote is inserted and then deleted, with no statement between the
\* two, its issue's counters are what they were before the insert.
C4_InsertDeleteRestoresCounters ==
    voteTrace.op = "insert_delete"
    => Counters(issues, voteTrace.issue_id) = voteTrace.before

\* A vote has been inserted on an issue with non-zero counters and deleted.
C4_Witness ==
    /\ voteTrace.op = "insert_delete"
    /\ voteTrace.before.upvotes > 0
    /\ voteTrace.before.downvotes > 0

\* C21: in every step that is an UPDATE of a vote, with i the issue the vote
\* references afterwards: when vote_type changes, i's counter of the old type
\* becomes GREATEST(counter - 1, 0) and i's counter of the new type grows by
\* one, so upvotes + downvotes of i is unchanged when the old type's counter was
\* positive; when vote_type does not change, both counters of i are unchanged;
\* no other issue changes.
C21_UpdateMovesOneCount ==
    [][lastStmt'.op = "update_vote"
       => LET old == issue_votes[lastStmt'.key]
              new == issue_votes'[lastStmt'.key]
              i == new.issue_id
              Count(tbl, ty) == IF ty = "upvote" THEN tbl[i].upvotes ELSE tbl[i].downvotes
          IN /\ old.vote_type # new.vote_type
                  => /\ Count(issues', old.vote_type)
                          = GREATEST(Count(issues, old.vote_type) - 1, 0)
                     /\ Count(issues', new.vote_type) = Count(issues, new.vote_type) + 1
                     /\ Count(issues, old.vote_type) > 0
                          => issues'[i].upvotes + issues'[i].downvotes
                               = issues[i].upvotes + issues[i].downvotes
             /\ old.vote_type = new.vote_type
                  => Counters(issues', i) = Counters(issues, i)
             /\ \A k \in DOMAIN issues \ {i} : issues'[k] = issues[k]
      ]_vars

\* A vote's type has just been changed on an issue whose counter of the old
\* type was positive: the counters differ from before and their sum does not.
C21_Witness ==
    /\ voteTrace.op = "update" /\ lastStmt.op = "update_vote"
    /\ Counters(issues, voteTrace.issue_id) # voteTrace.before
    /\ issues[voteTrace.issue_id].upvotes + issues[voteTrace.issue_id].downvotes
         = voteTrace.before.upvotes + voteTrace.before.downvotes

\* C25: each counter of each issue equals the number of issue_votes rows of
\* that type that reference the issue (the tables start with no vote and every
\* counter 0).
C25_CountersMatchRows ==
    \A i \in DOMAIN issues :
       LET Rows(ty) == {v \in DOMAIN issue_votes :
                          issue_votes[v].issue_id = i /\ issue_votes[v].vote_type = ty}
       IN /\ issues[i].upvotes = Cardinality(Rows("upvote"))
          /\ issues[i].downvotes = Cardinality(Rows("downvote"))

\* The issue the last INSERT INTO issues stored.
Stored == issues[lastStmt.key]

IssueStored == lastStmt.op = "insert_issue" /\ lastStmt.ok

\* The verified area_super_admin profiles bound to area a.
VerifiedAdminsOf(a) ==
    {q \in DOMAIN profiles :
        /\ profiles[q].assigned_area_id = a
        /\ profiles[q].user_type = "area_super_admin"
        /\ profiles[q].is_verified}

\* C5: an issue stored with an area name that matches an active area to which
\* no verified area_super_admin is bound has assigned_area_id equal to that
\* area's id and current_assignee_id null.
C5_AreaSetAssigneeNull ==
    IssueStored =>
        \A a \in AreaCandidates(Stored.area) :
            VerifiedAdminsOf(a) = {}
            => Stored.assigned_area_id = a /\ Stored.current_assignee_id = NULL

\* C6: an issue stored with an area name that matches an active area to which a
\* verified area_super_admin is bound has assigned_area_id equal to a matching
\* active area's id and current_assignee_id equal to a verified
\* area_super_admin bound to that same area.
C6_AreaAndAdminSet ==
    (IssueStored /\ \E a \in AreaCandidates(Stored.area) : VerifiedAdminsOf(a) # {})
    => /\ Stored.assigned_area_id \in AreaCandidates(Stored.area)
       /\ Stored.current_assignee_id \in VerifiedAdminsOf(Stored.assigned_area_id)

\* C7: an INSERT INTO issues fails only on a taken primary key; the issue it
\* stores has workflow_stage 'area_review', and assigned_area_id and
\* current_assignee_id null when its area is null or matches no active area
\* and no verified area_super_admin.
C7_InsertNeverFailsOnAssignment ==
    lastStmt.op = "insert_issue"
    => /\ ~lastStmt.ok => lastStmt.error = "duplicate_key"
       /\ lastStmt.ok =>
            /\ Stored.workflow_stage = "area_review"
            /\ (\/ Stored.area = NULL
                \/ AreaCandidates(Stored.area) = {} /\ AdminCandidates(Stored.area) = {})
               => /\ Stored.assigned_area_id = NULL
                  /\ Stored.current_assignee_id = NULL

\* Issues have been stored with a null area and with an area name no area has.
C7_Witness ==
    /\ IssueStored
    /\ Stored.area = NULL
    /\ \E i \in DOMAIN issues :
          /\ issues[i].area = "XYZ"
          /\ issues[i].workflow_stage = "area_review"
          /\ issues[i].assigned_area_id = NULL

\* C13: a statement by an admin that sets the status of a not yet awarded
\* tender without a source issue to 'awarded' succeeds and leaves the tender
\* with status 'awarded'.
C13_AwardWithoutIssueSucceeds ==
    [][\A t \in DOMAIN tenders :
          (/\ tenders[t].source_issue_id = NULL
           /\ tenders[t].status \notin {NULL, "awarded"}
           /\ \E to \in AwardTargets : UpdateTender("p1", t, "awarded", to))
          => (lastStmt'.ok /\ tenders'[t].status = "awarded")
      ]_vars

C19_AwardDetails ==
    [][\A uid \in Callers, t \in DOMAIN tenders, to \in AwardTargets :
          (/\ lastStmt'.key = t
           /\ tenders[t].status \notin {NULL, "awarded"}
           /\ lastStmt'.ok
           /\ UpdateTender(uid, t, "awarded", to))
          => LET src == tenders'[t].source_issue_id
                 row == issue_assignments'[Len(issue_assignments')]
             IN /\ tenders'[t].awarded_to = to
                /\ src \in DOMAIN issues'
                /\ issues'[src].status = "in_progress"
                /\ issues'[src].current_assignee_id = to
                /\ Len(issue_assignments') = Len(issue_assignments) + 1
                /\ row.issue_id = src
                /\ row.assigned_to = to
                /\ row.assigned_by = uid
                /\ row.assignment_type = "department_to_contractor"
                /\ row.status = "active"
      ]_vars

\* The admin p1 has awarded the open tender t1 to p3: issue i1 is in progress
\* with assignee p3, and the last row is p1's hand-off of i1 to p3.
C19_Witness ==
    /\ lastStmt.op = "update_tender" /\ lastStmt.key = "t1" /\ lastStmt.ok
    /\ lastStmt.old = "open"
    /\ tenders["t1"].status = "awarded" /\ tenders["t1"].awarded_to = "p3"
    /\ issues["i1"].status = "in_progress"
    /\ issues["i1"].current_assignee_id = "p3"
    /\ Len(issue_assignments) >= 1
    /\ LET row == issue_assignments[Len(issue_assignments)] IN
         /\ row.issue_id = "i1" /\ row.assigned_to = "p3" /\ row.assigned_by = "p1"
         /\ row.assignment_type = "department_to_contractor"
         /\ row.status = "active"

\* C20: every committed statement that takes a tender from a status other than
\* 'awarded', NULL included, to 'awarded' updates the tender's source issue
\* (stage 'contractor_assigned', status 'in_progress') and adds one row to
\* issue_assignments.
C20_AwardFiresFromAnyStatus ==
    [][\A t \in DOMAIN tenders :
          (/\ lastStmt'.op = "update_tender" /\ lastStmt'.key = t /\ lastStmt'.ok
           /\ tenders[t].status # "awarded"
           /\ tenders'[t].status = "awarded")
          => LET src == tenders'[t].source_issue_id IN
               /\ src \in DOMAIN issues'
               /\ issues'[src].workflow_stage = "contractor_assigned"
               /\ issues'[src].status = "in_progress"
               /\ Len(issue_assignments') = Len(issue_assignments) + 1
      ]_vars

\* C26: each issue has at most one issue_assignments row of type
\* 'department_to_contractor' with status 'active', and the assigned_to of such
\* a row is the issue's current_assignee_id.
C26_OneActiveAssignment ==
    \A i \in DOMAIN issues :
       LET active == {n \in DOMAIN issue_assignments :
                        /\ issue_assignments[n].issue_id = i
                        /\ issue_assignments[n].assignment_type = "department_to_contractor"
                        /\ issue_assignments[n].status = "active"}
       IN /\ Cardinality(active) <= 1
          /\ \A n \in active :
                issue_assignments[n].assigned_to = issues[i].current_assignee_id

\* C14: an INSERT INTO issue_assignments by a caller (the caller of a statement
\* is the key of lastStmt) adds its row only when the
\* caller is authenticated, the row's assigned_by is the caller and the
\* caller's profile has user_type admin, area_super_admin or department_admin;
\* every other insert is rejected and leaves issue_assignments as it was; the
\* author of every row that is added is the caller, with such a profile.
C14_InsertPolicy ==
    [][/\ \A uid \in {lastStmt'.key}, row \in AssignmentRows :
             (lastStmt'.op = "insert_assignment" /\ InsertAssignment(uid, row))
             => \/ /\ uid # NULL /\ row.assigned_by = uid
                   /\ uid \in DOMAIN profiles
                   /\ profiles[uid].user_type
                        \in {"admin", "area_super_admin", "department_admin"}
                \/ /\ issue_assignments' = issue_assignments
                   /\ ~lastStmt'.ok
       /\ Len(issue_assignments') > Len(issue_assignments)
            => LET r == issue_assignments'[Len(issue_assignments')] IN
                 /\ r.assigned_by = lastStmt'.key
                 /\ r.assigned_by \in DOMAIN profiles
                 /\ profiles[r.assigned_by].user_type
                      \in {"admin", "area_super_admin", "department_admin"}
      ]_vars

\* The admin p1 has inserted a row it authored, and an insert by the contractor
\* p3 has just been rejected by the policy.
C14_Witness ==
    /\ Len(issue_assignments) = 1
    /\ issue_assignments[1].assigned_by = "p1"
    /\ lastStmt.op = "insert_assignment" /\ lastStmt.key = "p3"
    /\ lastStmt.error = "policy_violation"

\* The stages of the workflow_stage CHECK, in their order.
StageOrder == <<"reported", "area_review", "department_assigned", "contractor_assigned",
                "in_progress", "department_review", "resolved">>

\* C16: no issue creation and no tender update moves an existing issue to an
\* earlier workflow_stage of the order reported, area_review,
\* department_assigned, contractor_assigned, in_progress, department_review,
\* resolved, and every stored stage is one of these.
C16_StageOnlyForward ==
    [][\A i \in DOMAIN issues \cap DOMAIN issues' :
          \E a, b \in DOMAIN StageOrder :
             /\ StageOrder[a] = issues[i].workflow_stage
             /\ StageOrder[b] = issues'[i].workflow_stage
             /\ a <= b
      ]_vars

\* Issue i1 has been awarded twice and is at contractor_assigned, and a third
\* issue has been created meanwhile.
C16_Witness ==
    /\ issues["i1"].workflow_stage = "contractor_assigned"
    /\ Len(issue_assignments) = 2
    /\ "i3" \in DOMAIN issues
    /\ issues["i3"].workflow_stage = "area_review"

\* C17: an UPDATE or DELETE of issue_assignments by a caller of any role
\* leaves the table as it is; in every step the rows whose issue still exists
\* afterwards stay, unchanged and in their order, ahead of any new row, so a row
\* only goes away together with its issue; and every row references an existing
\* issue.
C17_AppendOnly ==
    [][LET Alive(r) == r.issue_id \in DOMAIN issues'
           kept == SelectSeq(issue_assignments, Alive)
       IN /\ lastStmt'.op \in {"update_assignment", "delete_assignment"}
               => issue_assignments' = issue_assignments
          /\ Len(issue_assignments') >= Len(kept)
          /\ SubSeq(issue_assignments', 1, Len(kept)) = kept
          /\ \A n \in DOMAIN issue_assignments' :
                issue_assignments'[n].issue_id \in DOMAIN issues'
      ]_vars

\* Rows for i1 and i2 were inserted, issue i1 was deleted and took its row along,
\* and the admin p1 has just tried to delete the remaining row, which is still
\* there.
C17_Witness ==
    /\ lastStmt.op = "delete_assignment" /\ lastStmt.key = "p1" /\ lastStmt.ok
    /\ "i1" \notin DOMAIN issues
    /\ Len(issue_assignments) = 1
    /\ issue_assignments[1].issue_id = "i2"

\* C12: every step that stores a new auth.users row adds exactly one profiles
\* row, under the identity's id and with its email, and changes no other
\* profile; the row's user_type is 'user' when the metadata gives no user_type,
\* and its full_name, first_name and last_name are the metadata's values, or
\* the empty string for those the metadata does not give.
C12_NewUserGetsOneProfile ==
    [][\A u \in DOMAIN auth_users' \ DOMAIN auth_users :
          LET meta == auth_users'[u].raw_user_meta_data
              Given(k) == k \in DOMAIN meta /\ meta[k] # NULL
          IN /\ u \notin DOMAIN profiles
             /\ DOMAIN profiles' = DOMAIN profiles \cup {u}
             /\ \A p \in DOMAIN profiles : profiles'[p] = profiles[p]
             /\ profiles'[u].id = u
             /\ profiles'[u].email = auth_users'[u].email
             /\ ~Given("user_type") => profiles'[u].user_type = "user"
             /\ \A k \in {"full_name", "first_name", "last_name"} :
                   profiles'[u][k] = IF Given(k) THEN meta[k] ELSE ""
      ]_vars

\* Identity u1 was created with a first name only: its profile is a 'user' with
\* that first name, an empty full_name and an empty last_name.
C12_Witness ==
    /\ "u1" \in DOMAIN auth_users
    /\ DOMAIN auth_users["u1"].raw_user_meta_data = {"first_name"}
    /\ "u1" \in DOMAIN profiles
    /\ profiles["u1"].email = auth_users["u1"].email
    /\ profiles["u1"].user_type = "user"
    /\ profiles["u1"].first_name = "Ann"
    /\ profiles["u1"].full_name = "" /\ profiles["u1"].last_name = ""

\* C27: the creation of a new identity whose metadata gives a user_type stores
\* the identity and one profile with that user_type when it is user, admin,
\* area_super_admin, department_admin or tender; when it is anything else the
\* statement fails on the user_type check and stores neither an identity nor a
\* profile.
C27_SuppliedTypeIsTaken ==
    [][\A id \in {lastStmt'.key}, email \in Emails, meta \in TypeMetas :
          (/\ lastStmt'.op = "insert_user"
           /\ id \notin DOMAIN auth_users
           /\ CreateUser(id, email, meta))
          => IF meta.user_type
                  \in {"user", "admin", "area_super_admin", "department_admin", "tender"}
             THEN /\ lastStmt'.ok
                  /\ id \in DOMAIN auth_users'
                  /\ DOMAIN profiles' = DOMAIN profiles \cup {id}
                  /\ profiles'[id].user_type = meta.user_type
             ELSE /\ ~lastStmt'.ok /\ lastStmt'.error = "check_violation"
                  /\ auth_users' = auth_users
                  /\ profiles' = profiles
      ]_vars

\* Identity u1 signed up as 'admin' and has an admin profile; the sign-up of u2
\* as 'superuser' has just failed on the check and left no identity or profile.
C27_Witness ==
    /\ "u1" \in DOMAIN profiles /\ profiles["u1"].user_type = "admin"
    /\ auth_users["u1"].raw_user_meta_data.user_type = "admin"
    /\ lastStmt.op = "insert_user" /\ lastStmt.key = "u2"
    /\ lastStmt.error = "check_violation"
    /\ "u2" \notin DOMAIN auth_users /\ "u2" \notin DOMAIN profiles

(***************************************************************************)
(* Claims about the submission flow.                                       *)
(***************************************************************************)
\* C8: a press of the submit button while the title or the description is empty
\* starts no upload and no insert, stores no work_progress row and leaves the
\* form fields, the selected images and the loading flag as they were; it only
\* raises the validation Alert.
C8_EmptyFormRejectedLocally ==
    [][(HandleSubmit /\ (progressData.title = "" \/ progressData.description = ""))
       => /\ pc' = "idle"
          /\ flowTrace'.uploads = 0 /\ flowTrace'.inserts = 0
          /\ work_progress' = work_progress
          /\ progressData' = progressData
          /\ selectedImages' = selectedImages
          /\ loading' = loading /\ ~loading'
          /\ alert' = "validation"
      ]_vars

\* Submit was pressed with a title, two images and no description: the
\* validation Alert is up, nothing is in flight and nothing is stored.
C8_Witness ==
    /\ alert = "validation"
    /\ progressData.title # "" /\ progressData.description = ""
    /\ Len(selectedImages) = 2
    /\ pc = "idle" /\ ~loading
    /\ work_progress = <<>>

\* C9: once the upload of a submission with n >= 1 images has returned with
\* k >= 1 successes, the submission has made one upload call and one insert call,
\* the payload of that insert carries exactly the k URLs of the successful
\* uploads, and when the insert succeeds exactly one row has been added to
\* work_progress, with exactly those k URLs as its images.
C9_PartialUploadOneRow ==
    LET succeeded == {j \in DOMAIN flowTrace.ok : flowTrace.ok[j]}
        k == Cardinality(succeeded)
        Exactly(images) ==
            /\ Len(images) = k
            /\ {images[x] : x \in DOMAIN images}
                 = {Url(flowTrace.uris[j]) : j \in succeeded}
        added == DOMAIN work_progress \ flowTrace.rowsBefore
    IN (Len(flowTrace.uris) >= 1 /\ k >= 1)
       => /\ flowTrace.uploads = 1 /\ flowTrace.inserts = 1
          /\ pc = "inserting" => Exactly(payload.images)
          /\ flowTrace.result = "ok"
               => /\ Cardinality(added) = 1
                  /\ \A id \in added : Exactly(work_progress[id].images)

\* A submission with two images, the first of which failed to upload, has been
\* stored: one row with the one URL of the second image.
C9_Witness ==
    /\ flowTrace.result = "ok"
    /\ Len(flowTrace.uris) = 2
    /\ ~flowTrace.ok[1] /\ flowTrace.ok[2]
    /\ DOMAIN work_progress = {"wp1"}
    /\ work_progress["wp1"].images = <<Url(flowTrace.uris[2])>>

\* C10: a step in which the upload throws or submitWorkProgress returns an
\* error stores no row, raises the failure Alert, leaves the form fields and
\* the selected images as they are, leaves the modal open on its work item
\* (onClose is not called), and ends the submission with loading false; and no
\* step of a submission (its start, the return of the upload, the return of
\* the insert) changes the form fields or the selected images.
C10_FailureKeepsForm ==
    [][/\ (UploadThrows \/ InsertReturnsError)
          => /\ work_progress' = work_progress
             /\ alert = "none" /\ alert' = "failure"
             /\ progressData' = progressData
             /\ selectedImages' = selectedImages
             /\ showProgressTracker' /\ selectedWorkItem' = selectedWorkItem
             /\ ~screenLoading'
             /\ loading /\ ~loading'
             /\ pc' = "idle"
       /\ pc' # pc => (progressData' = progressData /\ selectedImages' = selectedImages)
      ]_vars

\* The insert of a submission with an image returned an error: the failure Alert
\* is up over the open modal, the form still holds what was typed, the image is
\* still selected, nothing is stored and loading is false.
C10_Witness ==
    /\ alert = "failure"
    /\ flowTrace.result = "insert_error"
    /\ showProgressTracker /\ ~screenLoading
    /\ progressData.title # "" /\ progressData.description # ""
    /\ Len(selectedImages) = 1
    /\ ~loading
    /\ work_progress = <<>>

\* C11: while the success Alert of a stored submission is up, the only step
\* there is is its OK button, and that step leaves the form at its initial
\* values with no image selected, hides the tracker modal, clears the selected
\* work item and starts the reload of the screen's work data; the stored row
\* stays.
C11_SuccessResetsAndCloses ==
    [][alert = "success"
       => /\ alert' = "none"
          /\ progressData' = InitialProgressData
          /\ selectedImages' = <<>>
          /\ ~showProgressTracker'
          /\ selectedWorkItem' = NULL
          /\ screenLoading'
          /\ work_progress' = work_progress
      ]_vars

\* A submission has been stored and its success Alert confirmed: the modal is
\* hidden, no work item is selected, the screen is reloading and the form is at
\* its initial values.
C11_Witness ==
    /\ DOMAIN work_progress = {"wp1"}
    /\ work_progress["wp1"].title # ""
    /\ alert = "none"
    /\ ~showProgressTracker /\ selectedWorkItem = NULL /\ screenLoading
    /\ progressData = InitialProgressData /\ selectedImages = <<>>

\* C23: when a submission assembles its payload (the step in which its insert
\* call starts), issue_id and tender_id are the tracker's issueId and tenderId
\* props, no entry of materials_used is blank, and labor_hours and
\* expenses_incurred are numbers: 0 when the text the submission was pressed with
\* is empty or does not parse, the parsed number otherwise.
C23_PayloadNormalised ==
    [][(pc # "inserting" /\ pc' = "inserting")
       => LET entered == IF pc = "uploading" THEN closure.progressData ELSE progressData
              labor == ParseNumber(entered.labor_hours)
              expenses == ParseNumber(entered.expenses_incurred)
          IN /\ payload'.issue_id = IssueIdProp
             /\ payload'.tender_id = TenderIdProp
             /\ \A n \in DOMAIN payload'.materials_used :
                   Trim(payload'.materials_used[n]) # ""
             /\ payload'.labor_hours \in Int
             /\ payload'.expenses_incurred \in Int
             /\ payload'.labor_hours = IF labor.nan THEN 0 ELSE labor.val
             /\ payload'.expenses_incurred = IF expenses.nan THEN 0 ELSE expenses.val
      ]_vars

\* The insert of a submission for tender t1 is in flight, pressed with labor
\* hours "abc", expenses "8 h" and the materials text "sand, ,gravel".
C23_Witness ==
    /\ pc = "inserting"
    /\ progressData.labor_hours = "abc" /\ payload.labor_hours = 0
    /\ progressData.expenses_incurred = "8 h" /\ payload.expenses_incurred = 8
    /\ payload.materials_used = <<"sand", "gravel">>
    /\ payload.issue_id = "i1" /\ payload.tender_id = "t1"

(***************************************************************************)
(* Claims about work_progress rows.                                        *)
(***************************************************************************)
\* C15 as stated: no step changes title, description, progress_percentage,
\* status, images, materials_used, labor_hours or expenses_incurred of a
\* work_progress row that exists before and after it.
C15_RowImmutable ==
    [][\A id \in DOMAIN work_progress \cap DOMAIN work_progress' :
          \A col \in {"title", "description", "progress_percentage", "status", "images",
                       "materials_used", "labor_hours", "expenses_incurred"} :
             work_progress'[id][col] = work_progress[id][col]
      ]_vars

\* C15, amended: a work_progress row is changed or deleted only by a statement
\* of its contractor or of a caller whose profile is admin, area_super_admin or
\* department_admin (the caller of a statement is the key of lastStmt); the
\* statements of every other caller leave the row as it is.
C15_OnlyManagersChangeRows ==
    [][\A id \in DOMAIN work_progress :
          (id \notin DOMAIN work_progress' \/ work_progress'[id] # work_progress[id])
          => \/ lastStmt'.key = work_progress[id].contractor_id
             \/ /\ lastStmt'.key \in DOMAIN profiles
                /\ profiles[lastStmt'.key].user_type
                     \in {"admin", "area_super_admin", "department_admin"}
      ]_vars

\* The contractor p3 has just changed the title of its stored row.
C15_Witness ==
    /\ lastStmt.op = "update_work_progress" /\ lastStmt.key = "p3" /\ lastStmt.ok
    /\ lastStmt.old = "title"
    /\ "wp1" \in DOMAIN work_progress
    /\ work_progress["wp1"].contractor_id = "p3"
    /\ work_progress["wp1"].title = "Second coat"

\* C22: every stored work_progress row has a progress_percentage in 0..100 and
\* a status among not_started, in_progress, completed, on_hold and cancelled.
C22_PersistedRowsInRange ==
    \A id \in DOMAIN work_progress :
       /\ work_progress[id].progress_percentage \in 0..100
       /\ work_progress[id].status
            \in {"not_started", "in_progress", "completed", "on_hold", "cancelled"}


\* C24: one submission is handled at a time. While a handleSubmit that a press
\* of the submit button started has not finished, no press of the submit button
\* has started another one; a submission makes at most one upload call and at
\* most one insert call, and none of its inserts while its upload is awaited.
C24_OneRequestAtATime ==
    /\ ~(pc # "idle" /\ detached.pc # "idle")
    /\ flowTrace.uploads <= 1 /\ flowTrace.inserts <= 1
    /\ pc = "uploading" => flowTrace.inserts = 0


\* C29: when the tracker is shown and every loadExistingProgress call has
\* returned, the list on display is the one returned for the selected work item,
\* or empty when that call failed; calls made before the tracker was reopened,
\* whenever and however they return, leave no other item's list on display.
C29_ListOfSelectedItem ==
    (showProgressTracker /\ \A r \in requests : r.result # "none")
    => /\ existingProgress \in {NoProgressList, selectedWorkItem}
       /\ \A r \in requests :
            ~r.stale => /\ r.item = selectedWorkItem
                        /\ existingProgress = IF r.result = "data"
                                               THEN selectedWorkItem
                                               ELSE NoProgressList

\* The tracker was reopened for another work item while the call for the first
\* was outstanding; that call has returned its list since, and so has the call
\* for the selected item.
C29_Witness ==
    /\ showProgressTracker
    /\ \A r \in requests : r.result # "none"
    /\ existingProgress = selectedWorkItem
    /\ \E r \in requests : r.stale /\ r.result = "data" /\ r.item # selectedWorkItem


\* Nothing in the form was entered for another work item than the selected one.
FormOfItem(workItem) ==
    /\ progressData.title \in {"", ItemTitle(workItem)}
    /\ progressData.description \in {"", ItemDescription(workItem)}
    /\ \A x \in DOMAIN selectedImages : selectedImages[x] = Asset(ItemAsset(workItem))

\* C28: while the tracker is shown, its form fields and selected images hold
\* nothing that was entered while another work item was selected; every stored
\* row's title, description and images were entered while the row's tender was
\* the selected work item and its issue_id is that item's source issue; and
\* every step that opens or closes the modal or changes the selected item,
\* the close button without a submission included, leaves the form as a new
\* component has it.
C28_FormTiedToItem ==
    /\ [](showProgressTracker => FormOfItem(selectedWorkItem))
    /\ [](\A id \in DOMAIN work_progress :
            LET row == work_progress[id]
            IN /\ row.tender_id \in WorkItems
               /\ row.issue_id = assignedWork[row.tender_id].source_issue_id
               /\ row.title = ItemTitle(row.tender_id)
               /\ row.description = ItemDescription(row.tender_id)
               /\ \A x \in DOMAIN row.images :
                    row.images[x] = Url(Asset(ItemAsset(row.tender_id)).uri))
    /\ [][(showProgressTracker' # showProgressTracker
             \/ selectedWorkItem' # selectedWorkItem)
           => (progressData' = InitialProgressData /\ selectedImages' = <<>>)]_vars

\* The tracker was closed with the close button with a title in the form, opened
\* again for the other work item, and a submission made there has stored its row.
C28_Witness ==
    /\ \E id \in DOMAIN work_progress :
         /\ work_progress[id].tender_id = "t3"
         /\ work_progress[id].title = ItemTitle("t3")
         /\ Len(work_progress[id].images) = 1
    /\ \E r \in requests : r.stale /\ r.item = "t1"

====
